---- MODULE Spec2Model ----
(***************************************************************************)
(* A model of Senget, a Windows package manager for GitHub releases:       *)
(* asset classification and selection (github/api.rs), version resolution, *)
(* download caching (dist.rs) and the install / update commands            *)
(* (commands.rs, package.rs, database.rs).                                 *)
(*                                                                         *)
(* Text (asset names, tags, repository names) is a sequence of one-        *)
(* character strings, so that lowercasing, substring search and            *)
(* replacement are computed character by character as the code does.       *)
(* Option<T> is a sequence of length 0 (None) or 1 (Some).                 *)
(***************************************************************************)
EXTENDS Naturals, Sequences, FiniteSets, TLC

VARIABLES
    pc,          \* position of the function under test: "start" or "done"
    repoName,    \* Repo.name of the repository whose assets are parsed
    assets,      \* AssetsResponseJson: the release's asset names, in order
    preferred,   \* preferred_dist_type: Option<DistType>
    classified,  \* Vec<AssetInfo> built by parse_assets_for_distributable
    selected,    \* Option<Dist> the assets resolve to
    releases,    \* ReleasesResponseJson: tag names, in list order
    request,     \* the version text the user asked for
    resolved,    \* Option<(release index, version)> of get_assets_url_by_version
    db,          \* Database<Package>: the set of persisted Package records
    dists,       \* the "distributables" folder: file title -> file content
    lastCmd,     \* what the last command did and returned
    arg,         \* the argument of the function applied to the disk or a text
    disk,        \* the folder tree the function reads and changes
    ret          \* what the function returned

vars == <<pc, repoName, assets, preferred, classified, selected,
          releases, request, resolved, db, dists, lastCmd, arg, disk, ret>>

\* No function has been given a folder tree or a text
IdleDisk == arg = <<>> /\ disk = <<>> /\ ret = <<>>

----------------------------------------------------------------------------
(* Option<T> *)

None == <<>>

Some(x) == <<x>>

IsSome(o) == o # <<>>

Unwrap(o) == o[1]

----------------------------------------------------------------------------
(* str primitives of the Rust standard library, over character sequences *)

UpperChars == <<"A","B","C","D","E","F","G","H","I","J","K","L","M",
                "N","O","P","Q","R","S","T","U","V","W","X","Y","Z">>

LowerChars == <<"a","b","c","d","e","f","g","h","i","j","k","l","m",
                "n","o","p","q","r","s","t","u","v","w","x","y","z">>

Digits == {"0","1","2","3","4","5","6","7","8","9"}

\* char::to_lowercase on the ASCII range
UpperToLower ==
    [c \in {UpperChars[i] : i \in 1..26} |->
        LowerChars[CHOOSE i \in 1..26 : UpperChars[i] = c]]

LowerChar(c) == IF c \in DOMAIN UpperToLower THEN UpperToLower[c] ELSE c

\* str::to_lowercase
to_lowercase(s) == [i \in 1..Len(s) |-> LowerChar(s[i])]

\* str::starts_with
starts_with(s, p) == Len(p) <= Len(s) /\ SubSeq(s, 1, Len(p)) = p

\* str::ends_with
ends_with(s, p) ==
    Len(p) <= Len(s) /\ SubSeq(s, Len(s) - Len(p) + 1, Len(s)) = p

\* str::contains
contains(s, p) ==
    \E i \in 0..Len(s) : i + Len(p) <= Len(s) /\ SubSeq(s, i + 1, i + Len(p)) = p

\* str::replace(p, ""): every non-overlapping match of p, scanning left to right
RECURSIVE replace(_, _)
replace(s, p) ==
    IF Len(s) < Len(p) \/ p = <<>> THEN s
    ELSE IF SubSeq(s, 1, Len(p)) = p
         THEN replace(SubSeq(s, Len(p) + 1, Len(s)), p)
         ELSE <<Head(s)>> \o replace(Tail(s), p)

\* str::replace([c1, c2, ..], ""): every character of the set is dropped
replace_chars(s, cs) == SelectSeq(s, LAMBDA c : c \notin cs)

\* Applies replace for each pattern of ps, in the order of ps
RECURSIVE replace_each(_, _)
replace_each(s, ps) ==
    IF ps = <<>> THEN s ELSE replace_each(replace(s, Head(ps)), Tail(ps))

----------------------------------------------------------------------------
(* github/api.rs: asset classification *)

Installer == "Installer"
Zip == "Zip"
Exe == "Exe"

DistType == {Installer, Zip, Exe}

\* derive(PartialOrd, Ord) on enum DistType { Installer, Zip, Exe }:
\* variants compare by declaration order
DistTypeOrd(d) == CASE d = Installer -> 0 [] d = Zip -> 1 [] d = Exe -> 2

\* The chain of .replace(pattern, "") calls of fuzz_asset_name, in source order
FuzzPatterns ==
    << <<"i","n","s","t","a","l","l","e","r">>,
       <<"u","p","d","a","t","e">>,
       <<"u","p","d","a","t","e","r">>,
       <<"s","e","t","u","p">>,
       <<"m","s","i">>,
       <<"z","i","p">>,
       <<"p","o","r","t","a","b","l","e">>,
       <<"p","o","r","t">>,
       <<"e","x","e">>,
       <<"w","i","n","d","o","w","s">>,
       <<"w","i","n">>,
       <<"x">>,
       <<"b","i","t">>,
       <<"a","m","d","6","4">>,
       <<"a","m","d">>,
       <<"i","3","8","6">>,
       <<"3","8","6">>,
       <<"8","6">>,
       <<"6","4">>,
       <<"3","2">> >>

fuzz_asset_name(lower_name) ==
    replace_each(replace_chars(lower_name, {"-", "_", "."}), FuzzPatterns)

\* Mutant of parse_asset_info: the ARM check is missing
parse_asset_info_arm_kept(repo_name_lower, asset) ==
    LET asset_name_lower == to_lowercase(asset)
        is_exe == ends_with(asset_name_lower, <<".","e","x","e">>)
        is_installer_dist ==
            \/ ends_with(asset_name_lower, <<".","m","s","i">>)
            \/ /\ is_exe
               /\ \/ contains(asset_name_lower, <<"i","n","s","t","a","l","l">>)
                  \/ contains(asset_name_lower, <<"s","e","t","u","p">>)
                  \/ contains(asset_name_lower, <<"u","p","d","a","t","e">>)
        is_exe_dist == ~is_installer_dist /\ is_exe
        is_zip_dist ==
            /\ ends_with(asset_name_lower, <<".","z","i","p">>)
            /\ ~contains(asset_name_lower, <<"m","a","c">>)
            /\ ~contains(asset_name_lower, <<"d","a","r","w","i","n">>)
            /\ ~contains(asset_name_lower, <<"l","i","n","u","x">>)
    IN  IF ~contains(asset_name_lower, repo_name_lower) THEN None
        ELSE IF is_exe_dist \/ is_zip_dist \/ is_installer_dist
             THEN Some([file_title |-> asset,
                        dist_type |-> IF is_exe_dist THEN Exe
                                      ELSE IF is_zip_dist THEN Zip
                                      ELSE Installer,
                        is_exact_match |->
                            fuzz_asset_name(asset_name_lower)
                                = fuzz_asset_name(repo_name_lower)])
             ELSE None

\* Mutant of parse_asset_info: an .exe named "update" is not an installer
parse_asset_info_update_is_exe(repo_name_lower, asset) ==
    LET asset_name_lower == to_lowercase(asset)
        is_exe == ends_with(asset_name_lower, <<".","e","x","e">>)
        is_installer_dist ==
            \/ ends_with(asset_name_lower, <<".","m","s","i">>)
            \/ /\ is_exe
               /\ \/ contains(asset_name_lower, <<"i","n","s","t","a","l","l">>)
                  \/ contains(asset_name_lower, <<"s","e","t","u","p">>)
        is_exe_dist == ~is_installer_dist /\ is_exe
        is_zip_dist ==
            /\ ends_with(asset_name_lower, <<".","z","i","p">>)
            /\ ~contains(asset_name_lower, <<"m","a","c">>)
            /\ ~contains(asset_name_lower, <<"d","a","r","w","i","n">>)
            /\ ~contains(asset_name_lower, <<"l","i","n","u","x">>)
    IN  IF contains(asset_name_lower, <<"a","r","m">>) THEN None
        ELSE IF ~contains(asset_name_lower, repo_name_lower) THEN None
        ELSE IF is_exe_dist \/ is_zip_dist \/ is_installer_dist
             THEN Some([file_title |-> asset,
                        dist_type |-> IF is_exe_dist THEN Exe
                                      ELSE IF is_zip_dist THEN Zip
                                      ELSE Installer,
                        is_exact_match |->
                            fuzz_asset_name(asset_name_lower)
                                = fuzz_asset_name(repo_name_lower)])
             ELSE None

\* Option<AssetInfo>; download_url is determined by the asset and is left out
parse_asset_info(repo_name_lower, asset) ==
    LET asset_name_lower == to_lowercase(asset)
        is_exe == ends_with(asset_name_lower, <<".","e","x","e">>)
        is_installer_dist ==
            \/ ends_with(asset_name_lower, <<".","m","s","i">>)
            \/ /\ is_exe
               /\ \/ contains(asset_name_lower, <<"i","n","s","t","a","l","l">>)
                  \/ contains(asset_name_lower, <<"s","e","t","u","p">>)
                  \/ contains(asset_name_lower, <<"u","p","d","a","t","e">>)
        is_exe_dist == ~is_installer_dist /\ is_exe
        is_zip_dist ==
            /\ ends_with(asset_name_lower, <<".","z","i","p">>)
            /\ ~contains(asset_name_lower, <<"m","a","c">>)
            /\ ~contains(asset_name_lower, <<"d","a","r","w","i","n">>)
            /\ ~contains(asset_name_lower, <<"l","i","n","u","x">>)
    IN  IF contains(asset_name_lower, <<"a","r","m">>) THEN None
        ELSE IF ~contains(asset_name_lower, repo_name_lower) THEN None
        ELSE IF is_exe_dist \/ is_zip_dist \/ is_installer_dist
             THEN Some([file_title |-> asset,
                        dist_type |-> IF is_exe_dist THEN Exe
                                      ELSE IF is_zip_dist THEN Zip
                                      ELSE Installer,
                        is_exact_match |->
                            fuzz_asset_name(asset_name_lower)
                                = fuzz_asset_name(repo_name_lower)])
             ELSE None

\* slice::sort_by and sort_by_key: a stable sort; keys[i] is the rank of s[i]
\* in the order sorted by, smaller first
StableSortBy(s, keys) ==
    LET rank(i) == Cardinality({j \in 1..Len(s) :
                        \/ keys[j] < keys[i]
                        \/ keys[j] = keys[i] /\ j < i})
    IN  [p \in 1..Len(s) |-> s[CHOOSE i \in 1..Len(s) : rank(i) = p - 1]]

\* sort_by(|a, b| b.dist_type.partial_cmp(&a.dist_type)): the greater kind first
by_dist_type_descending(asset_infos) ==
    StableSortBy(asset_infos,
        [i \in 1..Len(asset_infos) |-> 2 - DistTypeOrd(asset_infos[i].dist_type)])

\* sort_by_key(|ai| !ai.is_exact_match): false before true
by_not_exact_match(asset_infos) ==
    StableSortBy(asset_infos,
        [i \in 1..Len(asset_infos) |-> IF asset_infos[i].is_exact_match THEN 0 ELSE 1])

\* PackageInfo::new(..).fetch_dist(dist_type): the variant tag and the payload
fetch_dist(name, version, file_title, dist_type) ==
    [kind |-> dist_type,
     package_info |-> [name |-> name, version |-> version,
                       file_title |-> file_title]]

\* Mutant of find_preferred_dist: the last asset of the preferred kind is taken
find_preferred_dist_last_hit(preferred_dist_type, asset_infos, repo_name, version) ==
    IF preferred_dist_type = None
    THEN LET asset_info == by_not_exact_match(by_dist_type_descending(asset_infos))[1]
         IN  Some(fetch_dist(repo_name, version, asset_info.file_title,
                             asset_info.dist_type))
    ELSE LET pref_inst == Unwrap(preferred_dist_type)
             hits == SelectSeq(asset_infos, LAMBDA ai : ai.dist_type = pref_inst)
         IN  IF hits = <<>> THEN None
             ELSE Some(fetch_dist(repo_name, version, hits[Len(hits)].file_title,
                                  hits[Len(hits)].dist_type))

\* Option<Dist>
find_preferred_dist(preferred_dist_type, asset_infos, repo_name, version) ==
    IF preferred_dist_type = None
    THEN LET asset_info == by_not_exact_match(by_dist_type_descending(asset_infos))[1]
         IN  Some(fetch_dist(repo_name, version, asset_info.file_title,
                             asset_info.dist_type))
    ELSE LET pref_inst == Unwrap(preferred_dist_type)
             hits == SelectSeq(asset_infos, LAMBDA ai : ai.dist_type = pref_inst)
         IN  IF hits = <<>> THEN None
             ELSE Some(fetch_dist(repo_name, version, hits[1].file_title,
                                  hits[1].dist_type))

\* assets.into_iter().filter_map(parse_asset_info).collect()
RECURSIVE collect_asset_infos(_, _)
collect_asset_infos(repo_name_lower, as) ==
    IF as = <<>> THEN <<>>
    ELSE parse_asset_info(repo_name_lower, Head(as))
            \o collect_asset_infos(repo_name_lower, Tail(as))

\* Option<Dist>
parse_assets_for_distributable(repo_name, as, version, preferred_dist_type) ==
    LET asset_infos == collect_asset_infos(to_lowercase(repo_name), as)
    IN  IF asset_infos = <<>> THEN None
        ELSE find_preferred_dist(preferred_dist_type, asset_infos, repo_name, version)

\* The end of the match of (\.\d+)* continued from position j, the last digit
\* matched so far: greedy, one ".digits" group at a time
RECURSIVE DigitsEnd(_, _)
DigitsEnd(text, j) ==
    IF j + 1 <= Len(text) /\ text[j + 1] \in Digits THEN DigitsEnd(text, j + 1) ELSE j

RECURSIVE GroupsEnd(_, _)
GroupsEnd(text, j) ==
    IF j + 2 <= Len(text) /\ text[j + 1] = "." /\ text[j + 2] \in Digits
    THEN GroupsEnd(text, DigitsEnd(text, j + 2))
    ELSE j

\* Repo::parse_version: version_regex.find(text), the leftmost match of
\* (\d+(\.\d+)*) (generate_version_regex)
parse_version(text) ==
    IF \A i \in 1..Len(text) : text[i] \notin Digits THEN None
    ELSE LET start == CHOOSE i \in 1..Len(text) :
                         /\ text[i] \in Digits
                         /\ \A k \in 1..(i - 1) : text[k] \notin Digits
         IN  Some(SubSeq(text, start, GroupsEnd(text, DigitsEnd(text, start))))

\* Mutant of get_assets_url_by_version: a release matches when the requested
\* token is a prefix of its tag's token
RECURSIVE find_release_by_prefix(_, _, _)
find_release_by_prefix(tags, version, i) ==
    IF i > Len(tags) THEN None
    ELSE LET curr_ver == parse_version(tags[i])
         IN  IF curr_ver = None THEN find_release_by_prefix(tags, version, i + 1)
             ELSE IF starts_with(Unwrap(curr_ver), version)
                  THEN Some([release |-> i, version |-> Unwrap(curr_ver)])
                  ELSE find_release_by_prefix(tags, version, i + 1)

get_assets_url_by_version_prefix(tags, version) ==
    IF tags = <<>> THEN None
    ELSE LET v == parse_version(version)
         IN  IF v = None THEN None ELSE find_release_by_prefix(tags, Unwrap(v), 1)

\* The for loop over the releases from index i on
RECURSIVE find_release(_, _, _)
find_release(tags, version, i) ==
    IF i > Len(tags) THEN None
    ELSE LET curr_ver == parse_version(tags[i])
         IN  IF curr_ver = None THEN find_release(tags, version, i + 1)
             ELSE IF version = Unwrap(curr_ver)
                  THEN Some([release |-> i, version |-> Unwrap(curr_ver)])
                  ELSE find_release(tags, version, i + 1)

\* Repo::get_assets_url_by_version over the tag names of the release list;
\* the assets_url returned is that of the release at index "release"
get_assets_url_by_version(tags, version) ==
    IF tags = <<>> THEN None
    ELSE LET v == parse_version(version)
         IN  IF v = None THEN None ELSE find_release(tags, Unwrap(v), 1)

----------------------------------------------------------------------------
(* The world outside the program: GitHub and the installers it serves *)

Bar == <<"B","a","r">>

Latest == <<"l","a","t","e","s","t">>

BarSetupExe == <<"B","a","r","-","S","e","t","u","p",".","e","x","e">>
BarZip == <<"B","a","r",".","z","i","p">>
BarExe == <<"B","a","r",".","e","x","e">>

\* The repositories GitHub's search returns, in result order
Repos == << [name |-> Bar, full_name |-> <<"F","o","o","/","B","a","r">>] >>

\* The release list of a repository, newest first; the first is "releases/latest"
Releases(repo) ==
    << [tag_name |-> <<"v","2",".","0">>, assets |-> <<BarSetupExe, BarZip, BarExe>>],
       [tag_name |-> <<"v","1",".","0">>, assets |-> <<BarSetupExe, BarZip, BarExe>>] >>

Versions == { <<"1",".","0">>, <<"2",".","0">> }

Titles == {BarSetupExe, BarZip, BarExe}

\* Whether the bytes of an asset spell "Inno" or "Nullsoft": from 2.0 on the
\* plainly named Bar.exe is an Inno Setup installer
IsInnoOrNullsoftBody(title, version) == title = BarExe /\ version = <<"2",".","0">>

\* File contents in the distributables folder
NoFile == [state |-> "none", version |-> <<>>]
Body(version) == [state |-> "complete", version |-> version]
Truncated == [state |-> "truncated", version |-> <<>>]

FileContents == {NoFile, Truncated} \cup {Body(v) : v \in Versions}

\* utils.rs: pub const DEBUG: bool = true
DEBUG == TRUE

----------------------------------------------------------------------------
(* github/api.rs, commands.rs: resolving a name and a version to a Dist *)

\* commands.rs find_repo: the first search result whose name or full name
\* equals the query, ignoring case
find_repo(name) ==
    LET name_lower == to_lowercase(name)
        hits == SelectSeq(Repos, LAMBDA r :
                    \/ to_lowercase(r.name) = name_lower
                    \/ to_lowercase(r.full_name) = name_lower)
    IN  IF hits = <<>> THEN None ELSE Some(hits[1])

\* Repo::get_latest_dist
get_latest_dist(repo, preferred_dist_type) ==
    IF Releases(repo) = <<>> THEN None
    ELSE LET release == Releases(repo)[1]
             version == parse_version(release.tag_name)
         IN  IF version = None THEN None
             ELSE parse_assets_for_distributable(repo.name, release.assets,
                      Unwrap(version), preferred_dist_type)

\* Repo::get_dist
get_dist(repo, version, preferred_dist_type) ==
    LET tags == [i \in 1..Len(Releases(repo)) |-> Releases(repo)[i].tag_name]
        found == get_assets_url_by_version(tags, version)
    IN  IF found = None THEN None
        ELSE parse_assets_for_distributable(repo.name,
                 Releases(repo)[Unwrap(found).release].assets,
                 Unwrap(found).version, preferred_dist_type)

\* match version { "latest" => get_latest_dist, version => get_dist }
resolve_dist(repo, version, preferred_dist_type) ==
    IF version = Latest THEN get_latest_dist(repo, preferred_dist_type)
    ELSE get_dist(repo, version, preferred_dist_type)

----------------------------------------------------------------------------
(* dist.rs: download *)

\* PackageInfo::download: File::create truncates the target, then the body is
\* streamed into it; net_ok is whether the request and the stream succeed
package_info_download(package_info, folder, net_ok) ==
    [ok |-> net_ok,
     net |-> TRUE,
     folder |-> [folder EXCEPT ![package_info.file_title] =
                    IF net_ok THEN Body(package_info.version) ELSE Truncated]]

\* The early return with the file already in the folder
cached_download(folder) == [ok |-> TRUE, net |-> FALSE, folder |-> folder]

\* path.is_file()
is_file(folder, title) == folder[title] # NoFile

\* ExeDist::download
exe_dist_download(dist, folder, net_ok) ==
    package_info_download(dist.package_info, folder, net_ok)

\* ZipDist::download
zip_dist_download(dist, folder, net_ok) ==
    IF DEBUG /\ is_file(folder, dist.package_info.file_title)
    THEN cached_download(folder)
    ELSE package_info_download(dist.package_info, folder, net_ok)

\* InstallerDist::download
installer_dist_download(dist, folder, net_ok) ==
    IF is_file(folder, dist.package_info.file_title)
    THEN cached_download(folder)
    ELSE package_info_download(dist.package_info, folder, net_ok)

\* Dist::download
dist_download(dist, folder, net_ok) ==
    CASE dist.kind = Exe -> exe_dist_download(dist, folder, net_ok)
      [] dist.kind = Zip -> zip_dist_download(dist, folder, net_ok)
      [] dist.kind = Installer -> installer_dist_download(dist, folder, net_ok)

\* Mutant of check_if_is_actually_installer: every Exe is taken for an installer
check_if_is_actually_installer_always(dist, content) == [dist EXCEPT !.kind = Installer]

\* ExeDist::check_if_is_actually_installer on the downloaded file
check_if_is_actually_installer(dist, content) ==
    IF /\ content.state = "complete"
       /\ IsInnoOrNullsoftBody(dist.package_info.file_title, content.version)
    THEN [dist EXCEPT !.kind = Installer]
    ELSE dist

----------------------------------------------------------------------------
(* dist.rs: install *)

\* Paths are sequences of components
PackagesFolder == << <<"p","a","c","k","a","g","e","s">> >>

Parent(path) == SubSeq(path, 1, Len(path) - 1)

\* struct InstallInfo
InstallInfo(exe, folder, uninstall, dist_type, create_shortcut_file) ==
    [executable_path |-> exe,
     installation_folder |-> folder,
     uninstall_command |-> uninstall,
     dist_type |-> dist_type,
     create_shortcut_file |-> create_shortcut_file]

InstallOk(install_info) == [err |-> "", info |-> Some(install_info)]

InstallErr(err) == [err |-> err, info |-> None]

\* Mutant of exe_dist_install: the folder of the package is not reported
exe_dist_install_without_folder(dist, create_shortcut_file) ==
    InstallOk(InstallInfo(Some(Append(Append(PackagesFolder, dist.package_info.name),
                                      dist.package_info.name \o <<".","e","x","e">>)),
                          None, None, Exe, create_shortcut_file))

\* ExeDist::install: the file is placed at packages/<name>/<name>.exe
exe_dist_install(dist, create_shortcut_file) ==
    LET p_folder_path == Append(PackagesFolder, dist.package_info.name)
        exe_path == Append(p_folder_path, dist.package_info.name \o <<".","e","x","e">>)
    IN  InstallOk(InstallInfo(Some(exe_path), Some(p_folder_path), None, Exe,
                              create_shortcut_file))

\* ZipDist::install: ZipArchive::new fails on a file that is no complete zip;
\* find_executable_path finds <name>.exe in the archives of this world
zip_dist_install(dist, content, create_shortcut_file) ==
    LET installation_folder == Append(PackagesFolder, dist.package_info.name)
        executable_path ==
            Some(Append(installation_folder, dist.package_info.name \o <<".","e","x","e">>))
    IN  IF content.state # "complete" THEN InstallErr("ZipError")
        ELSE IF executable_path = None THEN InstallErr("NoExeFound")
        ELSE InstallOk(InstallInfo(executable_path, Some(installation_folder), None, Zip,
                                   create_shortcut_file))

\* What the installer of a version leaves behind when it puts a shortcut in
\* the start menu and an entry in the uninstall registry
InstalledExe(package_info) ==
    << <<"P","r","o","g","r","a","m","s">>, package_info.name, package_info.version,
       package_info.name \o <<".","e","x","e">> >>

RegisteredUninstall(package_info) ==
    << <<"u","n","i","n","s">>, package_info.name, package_info.version >>

\* What running an installer can come to: the process cannot be started, or it
\* runs and the shortcut and the uninstall entry are each found or not
InstallerOutcomes ==
    [run_ok : {FALSE}, shortcut : {FALSE}, uninstall : {FALSE}]
        \cup [run_ok : {TRUE}, shortcut : BOOLEAN, uninstall : BOOLEAN]

\* InstallerDist::install
installer_dist_install(dist, create_shortcut_file, outcome) ==
    IF ~outcome.run_ok THEN InstallErr("IoError")
    ELSE LET executable_path ==
                 IF outcome.shortcut THEN Some(InstalledExe(dist.package_info)) ELSE None
             installation_folder ==
                 IF IsSome(executable_path) THEN Some(Parent(Unwrap(executable_path)))
                 ELSE None
             uninstall_command ==
                 IF outcome.uninstall THEN Some(RegisteredUninstall(dist.package_info))
                 ELSE None
         IN  InstallOk(InstallInfo(executable_path, installation_folder,
                                   uninstall_command, Installer, create_shortcut_file))

\* Dist::install and the match of Package::install_updated_version
dist_install(dist, content, create_shortcut_file, outcome) ==
    CASE dist.kind = Exe -> exe_dist_install(dist, create_shortcut_file)
      [] dist.kind = Zip -> zip_dist_install(dist, content, create_shortcut_file)
      [] dist.kind = Installer ->
            installer_dist_install(dist, create_shortcut_file, outcome)

\* The outcomes that matter for a kind
OutcomesOf(dist) ==
    IF dist.kind = Installer THEN InstallerOutcomes
    ELSE {[run_ok |-> TRUE, shortcut |-> FALSE, uninstall |-> FALSE]}

----------------------------------------------------------------------------
(* package.rs, database.rs *)

\* Package::new
Package(version, repo, install_info) ==
    [version |-> version,
     lowercase_name |-> to_lowercase(repo.name),
     lowercase_fullname |-> to_lowercase(repo.full_name),
     repo |-> repo,
     install_info |-> install_info]

\* Option::or
Or(a, b) == IF IsSome(a) THEN a ELSE b

\* Mutant of merged_package: the previous value wins over the new one
merged_package_old_first(self, version, install_info) ==
    Package(version, self.repo,
            InstallInfo(Or(self.install_info.executable_path, install_info.executable_path),
                        Or(self.install_info.installation_folder,
                           install_info.installation_folder),
                        Or(self.install_info.uninstall_command,
                           install_info.uninstall_command),
                        install_info.dist_type,
                        self.install_info.create_shortcut_file))

\* Package::install_updated_version, after the install: the replacement record
merged_package(self, version, install_info) ==
    Package(version, self.repo,
            InstallInfo(Or(install_info.executable_path, self.install_info.executable_path),
                        Or(install_info.installation_folder,
                           self.install_info.installation_folder),
                        Or(install_info.uninstall_command,
                           self.install_info.uninstall_command),
                        install_info.dist_type,
                        self.install_info.create_shortcut_file))

\* Mutant of find_package: the name is compared as given, case and all
find_package_case_sensitive(items, name) == {p \in items : p.repo.name = name}

\* PackageDBManager::find_package: the records query_item can return, those
\* whose lowercase_name is the lowercased query
find_package(items, name) == {p \in items : p.lowercase_name = to_lowercase(name)}

\* PackageDBManager::add_package: add_item refuses an equal record
add_package(items, package) ==
    IF package \in items THEN [ok |-> FALSE, items |-> items]
    ELSE [ok |-> TRUE, items |-> items \cup {package}]

\* PackageDBManager::update_package: remove_item, then add_item
update_package_in_db(items, old_package, new_package) ==
    IF old_package \notin items THEN [ok |-> FALSE, items |-> items]
    ELSE add_package(items \ {old_package}, new_package)

----------------------------------------------------------------------------
(* Inputs of the asset functions *)

MaxMidTokens == 2
MaxAssets == 3

MyApp == <<"M","y","A","p","p">>

AssetRepoNames == {MyApp, Bar}

NamePrefixes == {MyApp, <<"m","y","a","p","p">>, Bar}

MidTokens ==
    { <<"-","S","e","t","u","p">>,
      <<"-","I","n","s","t","a","l","l","e","r">>,
      <<"-","U","p","d","a","t","e">>,
      <<"-","U","p","d","a","t","e","r">>,
      <<"-","x","6","4">>,
      <<"_","w","i","n","3","2">>,
      <<"-","w","i","n","d","o","w","s">>,
      <<"-","x","8","6">>,
      <<"-","p","o","r","t","a","b","l","e">>,
      <<"-","a","r","m","6","4">>,
      <<"-","l","i","n","u","x">>,
      <<"-","d","a","r","w","i","n">>,
      <<"-","m","a","c","o","s">>,
      <<"-","c","l","i">> }

Extensions ==
    { <<".","e","x","e">>, <<".","m","s","i">>, <<".","z","i","p">>,
      <<".","t","a","r">>, <<>> }

SeqsUpTo(S, n) == UNION {[1..k -> S] : k \in 0..n}

RECURSIVE Flatten(_)
Flatten(ss) == IF ss = <<>> THEN <<>> ELSE Head(ss) \o Flatten(Tail(ss))

\* Asset names: a prefix, up to MaxMidTokens middle tokens, an extension
AssetNames ==
    {p \o Flatten(m) \o e :
        p \in NamePrefixes, m \in SeqsUpTo(MidTokens, MaxMidTokens), e \in Extensions}

\* The assets a release of Foo/Bar publishes side by side
AssetPool ==
    {Bar \o m \o e :
        m \in {<<>>, <<"-","c","l","i">>},
        e \in {<<".","e","x","e">>, <<".","m","s","i">>, <<".","z","i","p">>}}
    \cup {Bar \o m \o <<".","e","x","e">> :
            m \in {<<"-","S","e","t","u","p">>, <<"-","a","r","m","6","4">>}}

Preferences == {None} \cup {Some(d) : d \in DistType}

NoVersion == <<>>

IdleVersion == releases = <<>> /\ request = <<>> /\ resolved = None

IdleLifecycle == db = {} /\ dists = <<>> /\ lastCmd = <<>>

IdleAssets ==
    /\ repoName = <<>> /\ assets = <<>> /\ preferred = None
    /\ classified = <<>> /\ selected = None

InitAssets ==
    /\ pc = "start"
    /\ \/ /\ repoName \in AssetRepoNames
          /\ assets \in {<<n>> : n \in AssetNames}
          /\ preferred = None
       \/ /\ repoName = Bar
          /\ assets \in SeqsUpTo(AssetPool, MaxAssets)
          /\ preferred \in Preferences
    /\ classified = <<>>
    /\ selected = None
    /\ IdleVersion
    /\ IdleLifecycle
    /\ IdleDisk

\* Repo::parse_assets_for_distributable applied to the release's assets
ParseAssets ==
    /\ pc = "start"
    /\ classified' = collect_asset_infos(to_lowercase(repoName), assets)
    /\ selected' = parse_assets_for_distributable(repoName, assets, NoVersion, preferred)
    /\ pc' = "done"
    /\ UNCHANGED <<repoName, assets, preferred, releases, request, resolved,
                   db, dists, lastCmd, arg, disk, ret>>

NextAssets == ParseAssets

SpecAssets == InitAssets /\ [][NextAssets]_vars

----------------------------------------------------------------------------
(* Inputs of version resolution *)

MaxReleases == 3

VersionCores ==
    { <<"2",".","0",".","9">>,
      <<"2",".","0",".","7">>,
      <<"2",".","0",".","6">>,
      <<"2",".","0">>,
      <<"2",".","0",".","0">>,
      <<"b","e","t","a">> }

\* Release tags: "v", a core, and possibly a pre-release suffix
Tags == {<<"v">> \o c \o x : c \in VersionCores, x \in {<<>>, <<"-","r","c","1">>}}

\* Requested versions: a core, possibly written with a leading "v"
Requests == {p \o c : p \in {<<>>, <<"v">>}, c \in VersionCores}

InitVersion ==
    /\ pc = "start"
    /\ releases \in SeqsUpTo(Tags, MaxReleases)
    /\ request \in Requests
    /\ resolved = None
    /\ IdleAssets
    /\ IdleLifecycle
    /\ IdleDisk

\* Repo::get_assets_url_by_version applied to the release list
ResolveVersion ==
    /\ pc = "start"
    /\ resolved' = get_assets_url_by_version(releases, request)
    /\ pc' = "done"
    /\ UNCHANGED <<repoName, assets, preferred, classified, selected,
                   releases, request, db, dists, lastCmd, arg, disk, ret>>

NextVersion == ResolveVersion

SpecVersion == InitVersion /\ [][NextVersion]_vars

----------------------------------------------------------------------------
(* The commands a user gives *)

\* Names: the repository's name in another case, and a name GitHub has nothing for
NameInputs == { <<"b","a","r">>, <<"N","o","p","e">> }

\* A name given as owner/name, in another case than the repository's
FullNameInputs == { <<"f","o","o","/","B","A","R">> }

\* Versions: "latest", a released version, a version never released
VersionInputs == { Latest, <<"1",".","0">>, <<"9",".","9">> }

\* What GitHub answers to these commands: find_repo of each name, and the dist
\* of each version of each repository under each preference
FoundRepos == [name \in NameInputs \cup FullNameInputs |-> find_repo(name)]

ResolvedDists ==
    [repo \in {Repos[i] : i \in 1..Len(Repos)}, version \in VersionInputs,
     preferred_dist_type \in Preferences |->
        resolve_dist(repo, version, preferred_dist_type)]

----------------------------------------------------------------------------
(* commands.rs: the commands *)

\* What a command did: its name and version arguments, the error kind it
\* returned ("Ok" for Ok(())), the version of the distributable resolved, the
\* kind whose download ran, whether the target file was there before the download, whether the download sent its request, whether an
\* install step ran, the InstallInfo the install step returned, the force flag
\* of an uninstall, and what the uninstall step met and returned
Log(op, name, version, result) ==
    [op |-> op, name |-> name, version |-> version, result |-> result,
     resolved |-> None, kind |-> None, existed |-> FALSE,
     net |-> FALSE, ran |-> FALSE, info |-> None,
     force |-> FALSE, step |-> None]

NoCmd == Log("none", <<>>, <<>>, "Ok")

\* The part of a command that downloads dist into the folder
LogDownload(log, dist, folder, dl) ==
    [log EXCEPT !.resolved = Some(dist.package_info.version),
                !.kind = Some(dist.kind),
                !.existed = is_file(folder, dist.package_info.file_title),
                !.net = dl.net]

\* Mutant of version_error: the versions are never compared
version_error_skipped(old_package, dist, version) == ""

\* update_package, match old_package.version == dist.version(): the error kind
\* of an update to the version already installed, "" when the versions differ
version_error(old_package, dist, version) ==
    IF old_package.version = dist.package_info.version
    THEN IF version = Latest THEN "AlreadyUpToDate" ELSE "VersionAlreadyInstalled"
    ELSE ""

\* The variables of the functions applied on their own, which no command touches
others == <<pc, repoName, assets, preferred, classified, selected,
            releases, request, resolved, arg, disk, ret>>

InitLifecycle ==
    /\ pc = "idle"
    /\ db = {}
    /\ dists = [title \in Titles |-> NoFile]
    /\ lastCmd = NoCmd
    /\ IdleAssets
    /\ IdleVersion
    /\ IdleDisk

\* internal_download_package up to the repository: api_ok is whether GitHub's
\* API answered the requests
internal_find_repo(name, api_ok) ==
    IF ~api_ok THEN [err |-> "RequestError", repo |-> None]
    ELSE IF FoundRepos[name] = None THEN [err |-> "NoPackage", repo |-> None]
    ELSE [err |-> "", repo |-> FoundRepos[name]]

\* internal_download_package from the repository to the dist
internal_resolve(repo, version, preferred_dist_type) ==
    [err |-> IF ResolvedDists[repo, version, preferred_dist_type] = None
             THEN "NoValidDist" ELSE "",
     dist |-> ResolvedDists[repo, version, preferred_dist_type]]

\* In the commands a value computed once and used several times is bound by
\* \E over the singleton of it

\* download_package: internal_download_package and nothing after it
DownloadPackage ==
    /\ pc = "idle"
    /\ \E name \in NameInputs, version \in VersionInputs, api_ok \in BOOLEAN :
       \E log \in {Log("download", name, version, "Ok")},
          hit \in {internal_find_repo(name, api_ok)} :
        IF hit.err # ""
        THEN lastCmd' = [log EXCEPT !.result = hit.err] /\ UNCHANGED <<db, dists>>
        ELSE \E preferred_dist_type \in Preferences :
             \E res \in {internal_resolve(Unwrap(hit.repo), version,
                                          preferred_dist_type)} :
             IF res.err # ""
             THEN /\ lastCmd' = [log EXCEPT !.result = res.err]
                  /\ UNCHANGED <<db, dists>>
             ELSE \E net_ok \in BOOLEAN :
                  \E dl \in {dist_download(Unwrap(res.dist), dists, net_ok)} :
                     /\ dists' = dl.folder
                     /\ lastCmd' = [LogDownload(log, Unwrap(res.dist), dists, dl)
                           EXCEPT !.result = IF dl.ok THEN "Ok" ELSE "RequestError"]
                     /\ UNCHANGED db
    /\ UNCHANGED others

\* install_package after the download: check_if_is_actually_installer, the
\* install of the dist, Package::new and add_package
install_downloaded(got, repo, found, content) ==
    \E dist \in {IF found.kind = Exe
                 THEN check_if_is_actually_installer(found, content)
                 ELSE found} :
    \E create_shortcut_file \in BOOLEAN, outcome \in OutcomesOf(dist) :
    \E done \in {dist_install(dist, content, create_shortcut_file, outcome)} :
        IF done.err # ""
        THEN /\ lastCmd' = [got EXCEPT !.result = done.err, !.ran = TRUE]
             /\ UNCHANGED db
        ELSE \E added \in {add_package(db, Package(dist.package_info.version, repo,
                                                   Unwrap(done.info)))} :
             /\ db' = added.items
             /\ lastCmd' = [got EXCEPT
                   !.result = IF added.ok THEN "Ok" ELSE "DatabaseError",
                   !.ran = TRUE, !.info = done.info]

\* install_package: the record lookup, internal_download_package (find_repo,
\* the dist of the version, its download), and the install of what it returns;
\* prefs are the preferences the user may give and nets the states the network
\* may be in (TRUE: the request is answered)
install_package(name, version, prefs, nets) ==
    \E log \in {Log("install", name, version, "Ok")} :
        IF find_package(db, name) # {}
        THEN /\ lastCmd' = [log EXCEPT !.result = "PackageAlreadyInstalled"]
             /\ UNCHANGED <<db, dists>>
        ELSE \E api_ok \in nets :
             \E hit \in {internal_find_repo(name, api_ok)} :
             IF hit.err # ""
             THEN /\ lastCmd' = [log EXCEPT !.result = hit.err]
                  /\ UNCHANGED <<db, dists>>
             ELSE \E preferred_dist_type \in prefs :
                  \E res \in {internal_resolve(Unwrap(hit.repo), version,
                                               preferred_dist_type)} :
                  IF res.err # ""
                  THEN /\ lastCmd' = [log EXCEPT !.result = res.err]
                       /\ UNCHANGED <<db, dists>>
                  ELSE \E net_ok \in nets :
                       \E dl \in {dist_download(Unwrap(res.dist), dists, net_ok)} :
                       \E got \in {LogDownload(log, Unwrap(res.dist), dists, dl)} :
                          /\ dists' = dl.folder
                          /\ IF ~dl.ok
                             THEN /\ lastCmd' = [got EXCEPT !.result = "RequestError"]
                                  /\ UNCHANGED db
                             ELSE install_downloaded(got, Unwrap(hit.repo),
                                      Unwrap(res.dist),
                                      dl.folder[Unwrap(res.dist).package_info.file_title])

InstallPackage ==
    /\ pc = "idle"
    /\ \E name \in NameInputs, version \in VersionInputs :
        install_package(name, version, Preferences, BOOLEAN)
    /\ UNCHANGED others

\* update_package after the download: Package::install_updated_version and
\* the database update
install_updated_version(got, old_package, dist, content) ==
    \E outcome \in OutcomesOf(dist) :
    \E done \in {dist_install(dist, content,
                     old_package.install_info.create_shortcut_file, outcome)} :
        IF done.err # ""
        THEN /\ lastCmd' = [got EXCEPT !.result = done.err, !.ran = TRUE]
             /\ UNCHANGED db
        ELSE \E stored \in {update_package_in_db(db, old_package,
                                merged_package(old_package, dist.package_info.version,
                                               Unwrap(done.info)))} :
             /\ db' = stored.items
             /\ lastCmd' = [got EXCEPT
                   !.result = IF stored.ok THEN "Ok" ELSE "DatabaseError",
                   !.ran = TRUE, !.info = done.info]

\* Mutant of update_preference: an update asks for no kind in particular
update_preference_none(old_package) == None

\* Package::get_dist: the kind an update asks for is the kind installed
update_preference(old_package) == Some(old_package.install_info.dist_type)

\* update_package: the record lookup, Package::get_dist, the version match,
\* the download, and the install of the updated version
update_package(name, version, nets) ==
    \E log \in {Log("update", name, version, "Ok")} :
        IF find_package(db, name) = {}
        THEN /\ lastCmd' = [log EXCEPT !.result = "NoInstalledPackage"]
             /\ UNCHANGED <<db, dists>>
        ELSE \E old_package \in find_package(db, name), api_ok \in nets :
            IF ~api_ok
            THEN /\ lastCmd' = [log EXCEPT !.result = "RequestError"]
                 /\ UNCHANGED <<db, dists>>
            ELSE \E res \in {internal_resolve(old_package.repo, version,
                                 update_preference(old_package))} :
                 IF res.err # ""
                 THEN /\ lastCmd' = [log EXCEPT !.result = res.err]
                      /\ UNCHANGED <<db, dists>>
                 ELSE \E refused \in {version_error(old_package, Unwrap(res.dist),
                                                    version)} :
                      IF refused # ""
                      THEN /\ lastCmd' = [log EXCEPT
                                 !.resolved = Some(Unwrap(res.dist).package_info.version),
                                 !.result = refused]
                           /\ UNCHANGED <<db, dists>>
                      ELSE \E net_ok \in nets :
                           \E dl \in {dist_download(Unwrap(res.dist), dists, net_ok)} :
                           \E got \in {LogDownload(log, Unwrap(res.dist), dists, dl)} :
                              /\ dists' = dl.folder
                              /\ IF ~dl.ok
                                 THEN /\ lastCmd' = [got EXCEPT !.result = "RequestError"]
                                      /\ UNCHANGED db
                                 ELSE install_updated_version(got, old_package,
                                          Unwrap(res.dist),
                                          dl.folder[Unwrap(res.dist).package_info.file_title])

UpdatePackage ==
    /\ pc = "idle"
    /\ \E name \in NameInputs, version \in VersionInputs :
        update_package(name, version, BOOLEAN)
    /\ UNCHANGED others

\* Ok(bool) and Err(io::Error) of Package::uninstall
UninstallOk(uninstalled) == [err |-> FALSE, uninstalled |-> uninstalled]

UninstallErr == [err |-> TRUE, uninstalled |-> FALSE]

\* What the system does during an uninstall: whether the environment variable
\* and the files can be changed, what starting the uninstall command comes to
\* ("Ok", the error "The filename, directory name, or volume label syntax is
\* incorrect.", or another error of the operating system), and whether the
\* executable is still a file afterwards
UninstallEnvs(package) ==
    IF package.install_info.dist_type = Installer
    THEN [io_ok : BOOLEAN, exec : {"Ok", "InvalidSyntax", "OtherError"},
          exe_is_file : BOOLEAN]
    ELSE [io_ok : BOOLEAN, exec : {"Ok"}, exe_is_file : {FALSE}]

\* Mutant of uninstall_installer_distributable: a record without an uninstall
\* command is handled like one whose command ran
uninstall_installer_distributable_without_match(self, env) ==
    IF env.exec = "InvalidSyntax" THEN UninstallOk(FALSE)
    ELSE IF IsSome(self.install_info.executable_path) /\ env.exe_is_file
    THEN UninstallOk(FALSE)
    ELSE UninstallOk(TRUE)

\* Package::uninstall reaches Command::new(program).args(args).output()
runs_uninstall_command(self, env) ==
    /\ ~(IsSome(self.install_info.installation_folder) /\ ~env.io_ok)
    /\ self.install_info.dist_type = Installer
    /\ IsSome(self.install_info.uninstall_command)

\* Package::uninstall_installer_distributable
uninstall_installer_distributable(self, env) ==
    IF self.install_info.uninstall_command = None THEN UninstallOk(FALSE)
    ELSE IF env.exec = "InvalidSyntax" THEN UninstallOk(FALSE)
    ELSE IF IsSome(self.install_info.executable_path) /\ env.exe_is_file
    THEN UninstallOk(FALSE)
    ELSE UninstallOk(TRUE)

\* Package::uninstall
uninstall(self, env) ==
    IF IsSome(self.install_info.installation_folder) /\ ~env.io_ok THEN UninstallErr
    ELSE IF self.install_info.dist_type = Installer
    THEN uninstall_installer_distributable(self, env)
    ELSE IF ~env.io_ok THEN UninstallErr
    ELSE UninstallOk(TRUE)

\* PackageDBManager::remove_package
remove_package(items, package) == items \ {package}

\* Mutant of uninstall_refused: the outcome of the uninstall step is not looked at
uninstall_refused_unless_forced(success, force) == ~force

\* uninstall_package, if !(success || force)
uninstall_refused(success, force) == ~(success \/ force)

\* uninstall_package
UninstallPackage ==
    /\ pc = "idle"
    /\ \E name \in NameInputs, force \in BOOLEAN :
       \E log \in {[Log("uninstall", name, <<>>, "Ok") EXCEPT !.force = force]} :
        IF find_package(db, name) = {}
        THEN /\ lastCmd' = [log EXCEPT !.result = "NoInstalledPackage"]
             /\ UNCHANGED db
        ELSE \E package \in find_package(db, name) :
             \E env \in UninstallEnvs(package) :
             \E done \in {uninstall(package, env)} :
             \E ran \in {[log EXCEPT !.ran = TRUE, !.kind = Some(package.install_info.dist_type),
                                     !.info = Some(package.install_info),
                                     !.step = Some([env |-> env, done |-> done,
                                                    spawned |-> runs_uninstall_command(package, env)])]} :
                IF uninstall_refused(~done.err /\ done.uninstalled, force)
                THEN /\ lastCmd' = [ran EXCEPT !.result = "FailedToUninstall"]
                     /\ UNCHANGED db
                ELSE /\ db' = remove_package(db, package)
                     /\ lastCmd' = ran
    /\ UNCHANGED dists
    /\ UNCHANGED others

Next == DownloadPackage \/ InstallPackage \/ UpdatePackage

\* The commands that add and remove records
NextUninstall == InstallPackage \/ UninstallPackage

SpecUninstall == InitLifecycle /\ [][NextUninstall]_vars

----------------------------------------------------------------------------
(* commands.rs: names given in full, and the update of all packages *)

MaxPackages == 2

\* The variables that neither an install nor the update of all touches
idle_functions == <<repoName, assets, preferred, classified, selected,
                    releases, request, resolved, arg, disk>>

\* install_package of the archive under any name, short or full, while the
\* network answers
InstallByName ==
    /\ pc = "idle"
    /\ Cardinality(db) < MaxPackages
    /\ \E name \in NameInputs \cup FullNameInputs, version \in VersionInputs :
        install_package(name, version, {Some(Zip)}, {TRUE})
    /\ UNCHANGED <<pc, ret>>
    /\ UNCHANGED idle_functions

\* The name that asks update_handler for every package
All == <<"a","l","l">>

\* fetch_all_packages: the records in the orders the set may be iterated in
RECURSIVE AllOrders(_)
AllOrders(items) ==
    IF items = {} THEN {<<>>}
    ELSE UNION {{<<p>> \o rest : rest \in AllOrders(items \ {p})} : p \in items}

\* update_all_packages, match err: the errors that are not pushed
counts_as_error(result) ==
    result \notin {"Ok", "AlreadyUpToDate", "VersionAlreadyInstalled"}

\* Mutant of packages_left: the loop ends at the first error pushed
packages_left_until_error(packages, result) ==
    IF counts_as_error(result) THEN <<>> ELSE Tail(packages)

\* update_all_packages, for p in ..: the packages left after the update of
\* the first returned result
packages_left(packages, result) == Tail(packages)

\* update_handler with the name "all": update_all_packages fetches the records
UpdateAllStart ==
    /\ pc = "idle"
    /\ \E packages \in AllOrders(db) :
        ret' = [fetched |-> packages, packages |-> packages,
                attempts |-> <<>>, errored_packages |-> <<>>]
    /\ pc' = "update_all"
    /\ lastCmd' = Log("update", All, Latest, "Ok")
    /\ UNCHANGED <<db, dists>>
    /\ UNCHANGED idle_functions

\* update_all_packages: one turn of the loop, update_package of the next
\* record's repository name and the match on its error
UpdateAllNext ==
    /\ pc = "update_all"
    /\ ret.packages # <<>>
    /\ update_package(Head(ret.packages).repo.name, Latest, BOOLEAN)
    /\ \E attempt \in {[name |-> Head(ret.packages).repo.name,
                        result |-> lastCmd'.result]} :
        ret' = [ret EXCEPT
                  !.packages = packages_left(ret.packages, attempt.result),
                  !.attempts = Append(@, attempt),
                  !.errored_packages = IF counts_as_error(attempt.result)
                                       THEN Append(@, attempt) ELSE @]
    /\ UNCHANGED pc
    /\ UNCHANGED idle_functions

\* update_all_packages after the loop: the report, and Ok(())
UpdateAllEnd ==
    /\ pc = "update_all"
    /\ ret.packages = <<>>
    /\ lastCmd' = [Log("update", All, Latest, "Ok") EXCEPT
                     !.step = Some([fetched |-> ret.fetched, attempts |-> ret.attempts,
                                    errored_packages |-> ret.errored_packages])]
    /\ pc' = "idle"
    /\ ret' = <<>>
    /\ UNCHANGED <<db, dists>>
    /\ UNCHANGED idle_functions

NextNames == InstallByName \/ UpdateAllStart \/ UpdateAllNext \/ UpdateAllEnd

SpecNames == InitLifecycle /\ [][NextNames]_vars

Spec == InitLifecycle /\ [][Next]_vars

----------------------------------------------------------------------------
(* utils.rs, dist.rs: the installation folder of an archive, as a folder     *)
(* tree. An entry is a path below the installation folder (a sequence of     *)
(* names, <<>> for the folder itself) and whether it is a directory.         *)

Entry(path, dir) == [path |-> path, dir |-> dir]

\* Path::is_dir, Path::is_file
path_is_dir(fs, path) == Entry(path, TRUE) \in fs

path_is_file(fs, path) == Entry(path, FALSE) \in fs

\* Path::file_name
file_name(path) == path[Len(path)]

\* Path::starts_with
path_starts_with(path, base) ==
    Len(base) <= Len(path) /\ SubSeq(path, 1, Len(base)) = base

\* FolderItems::folder_items: the paths of the entries of a directory, in the
\* order read_dir yields them; order lists every name in that order
folder_items(fs, path, order) ==
    LET present == SelectSeq(order, LAMBDA n : \E e \in fs : e.path = Append(path, n))
    IN  [i \in 1..Len(present) |-> Append(path, present[i])]

\* fs::remove_dir_all, fs::remove_file, fs::create_dir, fs::rename of a file
remove_dir_all(fs, path) == {e \in fs : ~path_starts_with(e.path, path)}

remove_file(fs, path) == fs \ {Entry(path, FALSE)}

create_dir(fs, path) == fs \cup {Entry(path, TRUE)}

rename(fs, from, to) == (fs \ {Entry(from, FALSE)}) \cup {Entry(to, FALSE)}

\* Result<(), io::Error> with the tree as the call left it
FsOk(fs) == [ok |-> TRUE, fs |-> fs]

FsErr(fs) == [ok |-> FALSE, fs |-> fs]

\* fs::remove_dir: fails on a directory that is missing or not empty
remove_dir(fs, path) ==
    IF path_is_dir(fs, path) /\ ~\E e \in fs : e.path # path /\ path_starts_with(e.path, path)
    THEN FsOk(fs \ {Entry(path, TRUE)})
    ELSE FsErr(fs)

RECURSIVE move_dir_all(_, _, _, _)
RECURSIVE move_items(_, _, _, _, _)

\* utils.rs move_dir_all: the loop over folder_items, from item i on
move_items(fs, items, i, to, order) ==
    IF i > Len(items) THEN FsOk(fs)
    ELSE LET item_path == items[i]
             item_to == Append(to, file_name(item_path))
         IN  IF path_is_dir(fs, item_path)
             THEN LET moved == move_dir_all(fs, item_path, item_to, order)
                  IN  IF ~moved.ok THEN moved
                      ELSE move_items(moved.fs, items, i + 1, to, order)
             ELSE LET cleared == IF path_is_file(fs, item_to) THEN remove_file(fs, item_to)
                                 ELSE IF path_is_dir(fs, item_to)
                                 THEN remove_dir_all(fs, item_to)
                                 ELSE fs
                  IN  IF ~path_is_file(cleared, item_path) THEN FsErr(cleared)
                      ELSE move_items(rename(cleared, item_path, item_to), items, i + 1,
                                      to, order)

\* utils.rs move_dir_all
move_dir_all(fs, from, to, order) ==
    IF ~path_is_dir(fs, from) THEN FsErr(fs)
    ELSE LET folder_items_ == folder_items(fs, from, order)
             freed == IF path_is_file(fs, to) THEN remove_file(fs, to) ELSE fs
             made == IF path_is_dir(freed, to) THEN freed ELSE create_dir(freed, to)
             moved == move_items(made, folder_items_, 1, to, order)
         IN  IF ~moved.ok THEN moved ELSE remove_dir(moved.fs, from)

\* ZipDist::find_inner_unzip_folder
RECURSIVE find_inner_unzip_folder(_, _, _)
find_inner_unzip_folder(fs, outer_unzip_folder, order) ==
    LET inner_folders == SelectSeq(folder_items(fs, outer_unzip_folder, order),
                                   LAMBDA path : path_is_dir(fs, path))
    IN  IF Len(inner_folders) # 1 THEN outer_unzip_folder
        ELSE find_inner_unzip_folder(fs, inner_folders[1], order)

\* ZipDist::find_executable_path: the loop over the queue of folders
RECURSIVE find_executable_in_queue(_, _, _, _, _)
find_executable_in_queue(fs, self_name_lower, queue, found_exe, order) ==
    IF queue = <<>> THEN found_exe
    ELSE LET items == folder_items(fs, Head(queue), order)
             self_exe_name_lower == self_name_lower \o <<".","e","x","e">>
             exact == SelectSeq(items, LAMBDA item :
                          to_lowercase(file_name(item)) = self_exe_name_lower)
             loose == SelectSeq(items, LAMBDA item :
                          /\ ends_with(to_lowercase(file_name(item)), <<"e","x","e">>)
                          /\ contains(to_lowercase(file_name(item)), self_name_lower))
             \* the items before the exact one set found_exe, but it is not returned
         IN  IF exact # <<>> THEN Some(exact[1])
             ELSE find_executable_in_queue(fs, self_name_lower,
                      Tail(queue) \o SelectSeq(items, LAMBDA item : path_is_dir(fs, item)),
                      IF found_exe = None /\ loose # <<>> THEN Some(loose[1]) ELSE found_exe,
                      order)

\* ZipDist::find_executable_path
find_executable_path(fs, self_name_lower, folder, order) ==
    find_executable_in_queue(fs, self_name_lower, <<folder>>, None, order)

\* The installation folder, as a path of the tree
InstallationFolder == <<>>

\* ZipDist::install after ZipArchive::extract: the folder tree it leaves, the
\* error kind ("" for Ok), the executable path of the InstallInfo, and the
\* tree as move_dir_all left it
zip_install_extracted(fs, name, order) ==
    LET inner_unzip_dir == find_inner_unzip_folder(fs, InstallationFolder, order)
        moved == IF inner_unzip_dir # InstallationFolder
                 THEN move_dir_all(fs, inner_unzip_dir, InstallationFolder, order)
                 ELSE FsOk(fs)
        executable_path == find_executable_path(moved.fs, to_lowercase(name),
                                                InstallationFolder, order)
    IN  IF ~moved.ok
        THEN [err |-> "IoError", fs |-> moved.fs, executable_path |-> None,
              flattened |-> moved.fs]
        ELSE IF executable_path = None
        THEN [err |-> "NoExeFound",
              fs |-> remove_dir_all(moved.fs, InstallationFolder),
              executable_path |-> None, flattened |-> moved.fs]
        ELSE [err |-> "", fs |-> moved.fs, executable_path |-> executable_path,
              flattened |-> moved.fs]

----------------------------------------------------------------------------
(* Inputs of the archive install: the archives ZipArchive::extract unpacks *)

MaxEntries == 4

\* Names of archive entries: the executable of the package, an executable
\* named after it, a name that ends in "exe" without the dot, a file of no
\* interest, and a folder the archive wraps its content in
FileNames ==
    << <<"B","a","r",".","e","x","e">>, <<"b","a","r","-","c","l","i",".","e","x","e">>, <<"b","a","r","e","x","e">>,
       <<"r","e","a","d","m","e">>, <<"a","p","p">> >>

Reverse(s) == [i \in 1..Len(s) |-> s[Len(s) + 1 - i]]

\* The orders read_dir may yield the names in
ReadDirOrders == {FileNames, Reverse(FileNames)}

InitZip ==
    /\ pc = "extract"
    /\ arg \in [name : {Bar}, order : ReadDirOrders]
    /\ disk = {Entry(InstallationFolder, TRUE)}
    /\ ret = <<>>
    /\ IdleAssets
    /\ IdleVersion
    /\ IdleLifecycle

\* ZipArchive::extract writes one more entry of the archive, a file or a
\* directory, into a directory it has already made
ExtractEntry ==
    /\ pc = "extract"
    /\ Cardinality(disk) <= MaxEntries
    /\ \E parent \in {e.path : e \in {d \in disk : d.dir}},
          i \in 1..Len(FileNames), dir \in BOOLEAN :
        /\ ~\E e \in disk : e.path = Append(parent, FileNames[i])
        /\ disk' = disk \cup {Entry(Append(parent, FileNames[i]), dir)}
    /\ UNCHANGED <<pc, arg, ret, repoName, assets, preferred, classified, selected,
                   releases, request, resolved, db, dists, lastCmd>>

\* ZipDist::install from the end of the extraction on
ZipInstall ==
    /\ pc = "extract"
    /\ \E done \in {zip_install_extracted(disk, arg.name, arg.order)} :
        /\ disk' = done.fs
        /\ ret' = [err |-> done.err, executable_path |-> done.executable_path,
                   extracted |-> disk, flattened |-> done.flattened]
    /\ pc' = "done"
    /\ UNCHANGED <<arg, repoName, assets, preferred, classified, selected,
                   releases, request, resolved, db, dists, lastCmd>>

NextZip == ExtractEntry \/ ZipInstall

SpecZip == InitZip /\ [][NextZip]_vars

----------------------------------------------------------------------------
(* package.rs: the uninstall command of a record *)

MSI_EXEC == <<"M","s","i","E","x","e","c",".","e","x","e">>

\* str::find: the first index at which pat occurs in s, 0 when it does not
RECURSIVE str_find(_, _, _)
str_find(s, pat, from) ==
    IF from + Len(pat) - 1 > Len(s) THEN 0
    ELSE IF SubSeq(s, from, from + Len(pat) - 1) = pat THEN from
    ELSE str_find(s, pat, from + 1)

\* str::split(pat).collect(): the pieces between the occurrences of pat
RECURSIVE split(_, _)
split(s, pat) ==
    LET i == str_find(s, pat, 1)
    IN  IF i = 0 THEN <<s>>
        ELSE <<SubSeq(s, 1, i - 1)>> \o split(SubSeq(s, i + Len(pat), Len(s)), pat)

\* Iterator::next().unwrap_or_default() on the pieces left
next_or_default(pieces) == IF pieces = <<>> THEN <<>> ELSE Head(pieces)

\* Package::extract_program_and_args
extract_program_and_args(uninstall_command) ==
    IF contains(uninstall_command, MSI_EXEC)
    THEN [program |-> MSI_EXEC,
          args |-> Tail(split(uninstall_command, MSI_EXEC \o <<" ">>))]
    ELSE LET pieces == split(uninstall_command, <<"\"", " ">>)
             args_string == next_or_default(Tail(pieces))
         IN  [program |-> replace(next_or_default(pieces), <<"\"">>),
              args |-> split(args_string, <<" ", "-", " ">>)]

----------------------------------------------------------------------------
(* Inputs of the uninstall command: the commands installers register *)

MaxWords == 2

\* Uninstaller programs as the registry names them: a quoted path with a
\* space, a quoted path without one, a bare path, and the system installer
UninstallPrograms ==
    { [path |-> <<"C",":","\\","A","p","p","\\","U","n","i","n","s","t","a","l","l"," ","A","p","p",".","e","x","e">>, quoted |-> TRUE],
      [path |-> <<"C",":","\\","A","p","p","\\","u","n","i","n","s","0","0","0",".","e","x","e">>, quoted |-> TRUE],
      [path |-> <<"C",":","\\","A","p","p","\\","u","n","i","n","s","0","0","0",".","e","x","e">>, quoted |-> FALSE],
      [path |-> MSI_EXEC, quoted |-> FALSE] }

\* The words that follow the program
UninstallWords ==
    { <<"/","S">>, <<"/","c","u","r","r","e","n","t","u","s","e","r">>, <<"/","X","{","G","U","I","D","}">>, <<"-">> }

\* The command text: the program, quoted or not, then each word after a space
RECURSIVE JoinWords(_)
JoinWords(words) ==
    IF words = <<>> THEN <<>> ELSE <<" ">> \o Head(words) \o JoinWords(Tail(words))

UninstallCommandText(program, words) ==
    (IF program.quoted THEN <<"\"">> \o program.path \o <<"\"">> ELSE program.path)
        \o JoinWords(words)

InitUninstallCommand ==
    /\ pc = "parse"
    /\ arg \in [program : UninstallPrograms, words : SeqsUpTo(UninstallWords, MaxWords)]
    /\ disk = <<>>
    /\ ret = <<>>
    /\ IdleAssets
    /\ IdleVersion
    /\ IdleLifecycle

ExtractProgramAndArgs ==
    /\ pc = "parse"
    /\ ret' = extract_program_and_args(UninstallCommandText(arg.program, arg.words))
    /\ pc' = "done"
    /\ UNCHANGED <<arg, disk, repoName, assets, preferred, classified, selected,
                   releases, request, resolved, db, dists, lastCmd>>

NextUninstallCommand == ExtractProgramAndArgs

SpecUninstallCommand == InitUninstallCommand /\ [][NextUninstallCommand]_vars

----------------------------------------------------------------------------
(* dist.rs: the snapshot of the shortcut files of a start-menu folder *)

\* Path::ends_with: the last components of path are the components of child
path_ends_with(path, child) ==
    /\ Len(child) <= Len(path)
    /\ SubSeq(path, Len(path) - Len(child) + 1, Len(path)) = child

\* The path ".lnk": one component
DotLnk == << <<".","l","n","k">> >>

RECURSIVE fetch_shortcut_files(_, _, _, _)
RECURSIVE fetch_shortcut_items(_, _, _, _, _)

\* InstallerDist::fetch_shortcut_files: the loop over folder_items, from
\* item i on
fetch_shortcut_items(files, fs, items, i, order) ==
    IF i > Len(items) THEN files
    ELSE LET e == items[i]
             found == IF path_is_file(fs, e) /\ path_ends_with(e, DotLnk)
                      THEN files \cup {e}
                      ELSE IF path_is_dir(fs, e)
                      THEN fetch_shortcut_files(files, fs, e, order)
                      ELSE files
         IN  fetch_shortcut_items(found, fs, items, i + 1, order)

\* InstallerDist::fetch_shortcut_files
fetch_shortcut_files(files, fs, startmenu_folder, order) ==
    fetch_shortcut_items(files, fs, folder_items(fs, startmenu_folder, order), 1, order)

----------------------------------------------------------------------------
(* Inputs of the snapshot: the start-menu folders installers leave behind *)

MaxItems == 3

\* Names in a start-menu folder: a shortcut, a name that is nothing but the
\* extension, a file that is no shortcut, and a folder of a vendor
StartmenuNames ==
    << <<"A","p","p",".","l","n","k">>, <<".","l","n","k">>, <<"A","p","p",".","u","r","l">>, <<"V","e","n","d","o","r">> >>

\* The start-menu folder, as a path of the tree
StartmenuFolder == <<>>

InitStartmenu ==
    /\ pc = "startmenu"
    /\ arg \in [order : {StartmenuNames, Reverse(StartmenuNames)}]
    /\ disk = {Entry(StartmenuFolder, TRUE)}
    /\ ret = <<>>
    /\ IdleAssets
    /\ IdleVersion
    /\ IdleLifecycle

\* An installer, or the user, puts one more file or folder into the start menu
CreateStartmenuEntry ==
    /\ pc = "startmenu"
    /\ Cardinality(disk) <= MaxItems
    /\ \E parent \in {e.path : e \in {d \in disk : d.dir}},
          i \in 1..Len(StartmenuNames), dir \in BOOLEAN :
        /\ ~\E e \in disk : e.path = Append(parent, StartmenuNames[i])
        /\ disk' = disk \cup {Entry(Append(parent, StartmenuNames[i]), dir)}
    /\ UNCHANGED <<pc, arg, ret, repoName, assets, preferred, classified, selected,
                   releases, request, resolved, db, dists, lastCmd>>

\* InstallerDist::install takes the snapshot of the folder
FetchShortcutFiles ==
    /\ pc = "startmenu"
    /\ ret' = [files |-> fetch_shortcut_files({}, disk, StartmenuFolder, arg.order)]
    /\ pc' = "done"
    /\ UNCHANGED <<arg, disk, repoName, assets, preferred, classified, selected,
                   releases, request, resolved, db, dists, lastCmd>>

NextStartmenu == CreateStartmenuEntry \/ FetchShortcutFiles

SpecStartmenu == InitStartmenu /\ [][NextStartmenu]_vars

----------------------------------------------------------------------------
(* dist.rs: what InstallerDist::install reads back after the installer ran:  *)
(* the shortcut of the package in the two start-menu folders, and the        *)
(* uninstall command in the two registry hives or the installation folder    *)

\* StartmenuFolders: the folder of the user and the folder of the machine, as
\* paths of one tree
Appdata == << <<"a","p","p","d","a","t","a">> >>

Programdata == << <<"p","r","o","g","r","a","m","d","a","t","a">> >>

\* The folder installers put the programs into
Programs == << <<"p","r","o","g","r","a","m","s">> >>

\* format!("{}.lnk", name)
shortcut_file_name(name) == name \o <<".","l","n","k">>

\* InstallerDist::statically_generate_package_shortcut
statically_generate_package_shortcut(fs, name, startmenu_folder) ==
    IF path_is_file(fs, Append(startmenu_folder, shortcut_file_name(name)))
    THEN Some(Append(startmenu_folder, shortcut_file_name(name)))
    ELSE IF path_is_file(fs, startmenu_folder \o <<name, shortcut_file_name(name)>>)
    THEN Some(startmenu_folder \o <<name, shortcut_file_name(name)>>)
    ELSE None

\* FilenameLower::filename_lower
filename_lower(path) == to_lowercase(file_name(path))

\* InstallerDist::dynamically_find_package_shortcut: the values `find` may
\* return, one for every order the HashSet difference may be iterated in
dynamically_find_package_shortcut(target_name_lower, shortcut_files_before, fs, startmenu_folder, order) ==
    LET shortcut_files_after == fetch_shortcut_files({}, fs, startmenu_folder, order)
        matching == {s \in shortcut_files_after \ shortcut_files_before :
                        contains(filename_lower(s), target_name_lower)}
    IN  IF matching = {} THEN {None} ELSE {Some(s) : s \in matching}

\* A subkey of an uninstall key of the registry: its name and its values
RegSubkey(name, disp_name, quiet, plain) ==
    [name |-> name, DisplayName |-> disp_name, QuietUninstallString |-> quiet,
     UninstallString |-> plain]

\* InstallerDist::fetch_reg_keys: the names of the subkeys of a hive
fetch_reg_keys(hive) == {k.name : k \in hive}

\* RegKey::open_subkey
open_subkey(hive, name) == CHOOSE k \in hive : k.name = name

\* get_value("QuietUninstallString").or_else(get_value("UninstallString")).ok()
uninstall_value(subkey) ==
    IF IsSome(subkey.QuietUninstallString) THEN subkey.QuietUninstallString
    ELSE subkey.UninstallString

\* InstallerDist::extract_uninstall_command_from_keys, from key i of new_keys on
RECURSIVE extract_uninstall_command_from_keys(_, _, _, _)
extract_uninstall_command_from_keys(target_name_lower, new_keys, i, hive) ==
    IF i > Len(new_keys) THEN None
    ELSE IF /\ IsSome(open_subkey(hive, new_keys[i]).DisplayName)
            /\ contains(to_lowercase(Unwrap(open_subkey(hive, new_keys[i]).DisplayName)),
                        target_name_lower)
    THEN uninstall_value(open_subkey(hive, new_keys[i]))
    ELSE extract_uninstall_command_from_keys(target_name_lower, new_keys, i + 1, hive)

\* The orders a HashSet may be iterated in
Orderings(set) ==
    {s \in [1..Cardinality(set) -> set] : \A i, j \in 1..Cardinality(set) : s[i] = s[j] => i = j}

\* after_keys.difference(before_keys) as every subkey the hive holds now
new_keys_every_key(after_keys, before_keys) == after_keys

\* after_keys.difference(before_keys)
new_keys_of(after_keys, before_keys) == after_keys \ before_keys

\* InstallerDist::fetch_uninstall_command_for_key: the values it may return,
\* one for every order of the difference
fetch_uninstall_command_for_key(target_name_lower, before_keys, hive) ==
    {extract_uninstall_command_from_keys(target_name_lower, new_keys, 1, hive) :
        new_keys \in Orderings(new_keys_of(fetch_reg_keys(hive), before_keys))}

\* InstallerDist::fetch_uninstall_command_from_executable, from item i on
RECURSIVE uninstall_executable_in(_, _)
uninstall_executable_in(items, i) ==
    IF i > Len(items) THEN None
    ELSE IF /\ contains(filename_lower(items[i]), <<"u","n","i","n","s">>)
            /\ ends_with(filename_lower(items[i]), <<".","e","x","e">>)
    THEN Some(items[i])
    ELSE uninstall_executable_in(items, i + 1)

\* InstallerDist::fetch_uninstall_command_from_executable; folder_items fails
\* on a folder that is not there
fetch_uninstall_command_from_executable(fs, installation_folder, order) ==
    IF ~path_is_dir(fs, installation_folder)
    THEN [err |-> "IoError", uninstall_command |-> None]
    ELSE [err |-> "",
          uninstall_command |-> uninstall_executable_in(folder_items(fs, installation_folder, order), 1)]

\* InstallerDist::fetch_uninstall_command once the hives have been read
fetch_uninstall_command_after_hives(from_user, from_machine, installation_folder, fs, order) ==
    IF IsSome(from_user) THEN [err |-> "", uninstall_command |-> from_user]
    ELSE IF IsSome(from_machine) THEN [err |-> "", uninstall_command |-> from_machine]
    ELSE IF IsSome(installation_folder)
    THEN fetch_uninstall_command_from_executable(fs, Unwrap(installation_folder), order)
    ELSE [err |-> "", uninstall_command |-> None]

\* InstallerDist::fetch_uninstall_command: the results it may return
fetch_uninstall_command(target_name_lower, installation_folder, before, world, order) ==
    {fetch_uninstall_command_after_hives(from_user, from_machine, installation_folder, world.fs, order) :
        from_user \in fetch_uninstall_command_for_key(target_name_lower, before.user_reg_keys_before, world.user),
        from_machine \in fetch_uninstall_command_for_key(target_name_lower, before.machine_reg_keys_before, world.machine)}

\* InstallerDist::find_shortcut_target: the local base path the link file
\* holds, when it can be read
find_shortcut_target(name, resolves) ==
    IF resolves THEN Some(Programs \o <<name, name \o <<".","e","x","e">> >>) ELSE None

\* The shortcut the static search of the two folders yields
static_shortcut(fs, name) ==
    IF IsSome(statically_generate_package_shortcut(fs, name, Appdata))
    THEN statically_generate_package_shortcut(fs, name, Appdata)
    ELSE statically_generate_package_shortcut(fs, name, Programdata)

\* The shortcuts the search of InstallerDist::install may end with
found_shortcuts(fs, name, shortcut_files_before, order) ==
    IF IsSome(static_shortcut(fs, name)) THEN {static_shortcut(fs, name)}
    ELSE {IF IsSome(in_appdata) THEN in_appdata ELSE in_programdata :
            in_appdata \in dynamically_find_package_shortcut(to_lowercase(name), shortcut_files_before, fs, Appdata, order),
            in_programdata \in dynamically_find_package_shortcut(to_lowercase(name), shortcut_files_before, fs, Programdata, order)}

\* InstallerDist::install from the return of the installer process on: what
\* it may return for a shortcut the search ended with
installer_read_back(shortcut_path, name, resolves, before, world, order) ==
    LET executable_path == IF IsSome(shortcut_path)
                           THEN find_shortcut_target(name, resolves) ELSE None
        installation_folder == IF IsSome(executable_path)
                               THEN Some(Parent(Unwrap(executable_path))) ELSE None
    IN  {[err |-> found.err,
          shortcut_path |-> shortcut_path,
          executable_path |-> executable_path,
          installation_folder |-> installation_folder,
          uninstall_command |-> found.uninstall_command] :
            found \in fetch_uninstall_command(to_lowercase(name), installation_folder, before, world, order)}

----------------------------------------------------------------------------
(* Inputs of the read-back: what is in the start menu, the registry and the  *)
(* programs folder before the installer runs, and what the installer adds    *)

MaxFootprint == 2

\* A package named like the extension of a shortcut
LnkName == <<"l","n","k">>

\* The files of the start menu and of the programs folder: the two static
\* candidates in either folder, a shortcut named after the package in another
\* way, a file named ".lnk", the uninstaller and the executable
FootprintFiles(name) ==
    UNION {{Append(root, shortcut_file_name(name)),
            root \o <<name, shortcut_file_name(name)>>,
            Append(root, <<"M","y"," ">> \o shortcut_file_name(name)),
            Append(root, <<".","l","n","k">>)} : root \in {Appdata, Programdata}}
    \cup {Programs \o <<name, <<"u","n","i","n","s","0","0","0",".","e","x","e">> >>,
          Programs \o <<name, name \o <<".","e","x","e">> >>}

\* The subkeys installers write: with both commands and a display name that
\* names the package, with the plain command only, of another program, with
\* no command at all, and with no display name
FootprintKeys(name) ==
    {RegSubkey(<<"1">>, Some(name \o <<" ","2">>), Some(<<"q","1">>), Some(<<"u","1">>)),
     RegSubkey(<<"2">>, Some(<<"M","y"," ">> \o to_lowercase(name)), None, Some(<<"u","2">>)),
     RegSubkey(<<"3">>, Some(<<"O","t","h","e","r">>), None, Some(<<"u","3">>)),
     RegSubkey(<<"4">>, Some(name), None, None),
     RegSubkey(<<"5">>, None, None, Some(<<"u","5">>))}

\* read_dir yields the names of a folder in this order
FootprintOrder(name) ==
    <<Appdata[1], Programdata[1], Programs[1], name, shortcut_file_name(name),
      <<"M","y"," ">> \o shortcut_file_name(name), <<".","l","n","k">>,
      <<"u","n","i","n","s","0","0","0",".","e","x","e">>, name \o <<".","e","x","e">> >>

\* The number of files and subkeys of the world
footprint(world) ==
    Cardinality({e \in world.fs : ~e.dir}) + Cardinality(world.user) + Cardinality(world.machine)

\* fs::write with the folders above the file made first
RECURSIVE write_file(_, _, _)
write_file(fs, path, i) ==
    IF i = Len(path) THEN fs \cup {Entry(path, FALSE)}
    ELSE write_file(fs \cup {Entry(SubSeq(path, 1, i), TRUE)}, path, i + 1)

\* The worlds one more file or one more subkey leaves
footprint_added(world, name) ==
    {[world EXCEPT !.fs = write_file(world.fs, path, 1)] :
        path \in {p \in FootprintFiles(name) : ~\E e \in world.fs : e.path = p}}
    \cup {[world EXCEPT !.user = world.user \cup {k}] :
        k \in {f \in FootprintKeys(name) : f.name \notin fetch_reg_keys(world.user)}}
    \cup {[world EXCEPT !.machine = world.machine \cup {k}] :
        k \in {f \in FootprintKeys(name) : f.name \notin fetch_reg_keys(world.machine)}}

InitInstaller ==
    /\ pc = "before"
    /\ arg \in [name : {Bar, LnkName}, resolves : BOOLEAN]
    /\ disk = [fs |-> {Entry(<<>>, TRUE), Entry(Appdata, TRUE), Entry(Programdata, TRUE)},
               user |-> {}, machine |-> {}]
    /\ ret = <<>>
    /\ IdleAssets
    /\ IdleVersion
    /\ IdleLifecycle

\* Something is in the start menu, the registry or the programs folder before
\* the package is installed
EarlierFootprint ==
    /\ pc = "before"
    /\ footprint(disk) < MaxFootprint
    /\ disk' \in footprint_added(disk, arg.name)
    /\ UNCHANGED <<pc, arg, ret, repoName, assets, preferred, classified, selected,
                   releases, request, resolved, db, dists, lastCmd>>

\* InstallerDist::install up to the start of the installer process: the
\* snapshots of the hives and of the start-menu folders
InstallerSnapshots ==
    /\ pc = "before"
    /\ ret' = [user_reg_keys_before |-> fetch_reg_keys(disk.user),
               machine_reg_keys_before |-> fetch_reg_keys(disk.machine),
               shortcut_files_before |->
                   fetch_shortcut_files(
                       fetch_shortcut_files({}, disk.fs, Appdata, FootprintOrder(arg.name)),
                       disk.fs, Programdata, FootprintOrder(arg.name)),
               world_before |-> disk]
    /\ pc' = "running"
    /\ UNCHANGED <<arg, disk, repoName, assets, preferred, classified, selected,
                   releases, request, resolved, db, dists, lastCmd>>

\* InstallerDist::run_installation: the installer process writes a file or a
\* subkey
RunInstallation ==
    /\ pc = "running"
    /\ footprint(disk) < MaxFootprint
    /\ disk' \in footprint_added(disk, arg.name)
    /\ UNCHANGED <<pc, arg, ret, repoName, assets, preferred, classified, selected,
                   releases, request, resolved, db, dists, lastCmd>>

\* The repository of the package, and the version the installer is of
FootprintRepo(name) == [name |-> name, full_name |-> <<"F","o","o","/">> \o name]

FootprintVersion == <<"2",".","0">>

\* install_package after InstallerDist::install returned: an error ends the
\* command, an InstallInfo is stored with Package::new and add_package
installed_record(items, name, info) ==
    IF info.err # "" THEN items
    ELSE add_package(items,
                     Package(FootprintVersion, FootprintRepo(name),
                             InstallInfo(info.executable_path, info.installation_folder,
                                         info.uninstall_command, Installer, FALSE))).items

\* InstallerDist::install from the return of the installer process on, and
\* the rest of install_package
InstallerReadBack ==
    /\ pc = "running"
    /\ \E shortcut_path \in found_shortcuts(disk.fs, arg.name, ret.shortcut_files_before, FootprintOrder(arg.name)) :
        \E info \in installer_read_back(shortcut_path, arg.name, arg.resolves, ret, disk, FootprintOrder(arg.name)) :
            /\ ret' = [before |-> ret, info |-> info]
            /\ db' = installed_record(db, arg.name, info)
    /\ pc' = "done"
    /\ UNCHANGED <<arg, disk, repoName, assets, preferred, classified, selected,
                   releases, request, resolved, dists, lastCmd>>

NextInstaller == EarlierFootprint \/ InstallerSnapshots \/ RunInstallation \/ InstallerReadBack

SpecInstaller == InitInstaller /\ [][NextInstaller]_vars

----------------------------------------------------------------------------
(* Inputs of the update of an archive package: ZipDist::install extracts the *)
(* new archive into the installation folder of the installed version         *)

MaxUpdateEntries == 5

\* Names of the entries of the new archive: the executable, a folder the
\* archive wraps its content in, and a file of no interest
UpdateNames ==
    << <<"B","a","r",".","e","x","e">>, <<"a","p","p">>, <<"r","e","a","d","m","e">> >>

\* The installation folder the install of the archive [Bar.exe] left, and the
\* executable path of its record
InitZipUpdate ==
    /\ pc = "installed"
    /\ arg \in [name : {Bar}, order : {UpdateNames, Reverse(UpdateNames)}]
    /\ disk = {Entry(InstallationFolder, TRUE), Entry(<<UpdateNames[1]>>, FALSE)}
    /\ ret = [executable_path |-> Some(<<UpdateNames[1]>>)]
    /\ IdleAssets
    /\ IdleVersion
    /\ IdleLifecycle

\* ZipArchive::extract writes one more entry of the new archive into the
\* folder; a file written over the file of the same path leaves the tree as
\* it is
ExtractUpdatedEntry ==
    /\ pc = "installed"
    /\ Cardinality(disk) <= MaxUpdateEntries
    /\ \E parent \in {e.path : e \in {d \in disk : d.dir}},
          i \in 1..Len(UpdateNames), dir \in BOOLEAN :
        /\ ~\E e \in disk : e.path = Append(parent, UpdateNames[i])
        /\ disk' = disk \cup {Entry(Append(parent, UpdateNames[i]), dir)}
    /\ UNCHANGED <<pc, arg, ret, repoName, assets, preferred, classified, selected,
                   releases, request, resolved, db, dists, lastCmd>>

\* ZipDist::install of the updated version, from the end of the extraction on
ZipInstallUpdated ==
    /\ pc = "installed"
    /\ \E done \in {zip_install_extracted(disk, arg.name, arg.order)} :
        /\ disk' = done.fs
        /\ ret' = [err |-> done.err, executable_path |-> done.executable_path,
                   extracted |-> disk, flattened |-> done.flattened, old |-> ret]
    /\ pc' = "done"
    /\ UNCHANGED <<arg, repoName, assets, preferred, classified, selected,
                   releases, request, resolved, db, dists, lastCmd>>

NextZipUpdate == ExtractUpdatedEntry \/ ZipInstallUpdated

SpecZipUpdate == InitZipUpdate /\ [][NextZipUpdate]_vars

----------------------------------------------------------------------------
(* Claims about the asset functions, checked under SpecAssets *)

ForeignOsWords ==
    { <<"m","a","c">>, <<"d","a","r","w","i","n">>, <<"l","i","n","u","x">> }

NamesForeignOs(lower) == \E w \in ForeignOsWords : contains(lower, w)

NamesArm(lower) == contains(lower, <<"a","r","m">>)

\* The (file title, kind) pairs of the classified list, in order
TitlesAndKinds(infos) ==
    [i \in 1..Len(infos) |-> <<infos[i].file_title, infos[i].dist_type>>]

\* Priority of a kind when no kind is preferred, as the specification ranks them
KindPriority(d) == CASE d = Installer -> 3 [] d = Zip -> 2 [] d = Exe -> 1

InfoSet(infos) == {infos[i] : i \in 1..Len(infos)}

\* C1 (as claimed): with no preferred kind and a non-empty classified list the
\* selector returns an asset of the top kind by Installer > Zip > Exe and, among
\* the assets of that kind, one whose exact-match flag is true when there is one.
C1_TopKindThenExactMatch ==
    (pc = "done" /\ preferred = None /\ classified # <<>>) =>
        LET top == CHOOSE d \in DistType :
                      /\ \E ai \in InfoSet(classified) : ai.dist_type = d
                      /\ \A ai \in InfoSet(classified) :
                            KindPriority(ai.dist_type) <= KindPriority(d)
            ofTop == {ai \in InfoSet(classified) : ai.dist_type = top}
            best == IF \E ai \in ofTop : ai.is_exact_match
                    THEN {ai \in ofTop : ai.is_exact_match}
                    ELSE ofTop
        IN  /\ IsSome(selected)
            /\ \E ai \in best :
                  /\ Unwrap(selected).kind = ai.dist_type
                  /\ Unwrap(selected).package_info.file_title = ai.file_title

\* C5 (as claimed): classification returns no asset whose lowercased name
\* contains "arm" and none whose lowercased name contains "mac", "darwin" or
\* "linux", whatever the extension.
C5_NoArmNoForeignOsAnyExtension ==
    pc = "done" =>
        \A ai \in InfoSet(classified) :
            /\ ~NamesArm(to_lowercase(ai.file_title))
            /\ ~NamesForeignOs(to_lowercase(ai.file_title))

\* C5 (amended): classification returns no asset whose lowercased name contains
\* "arm", and no .zip asset whose lowercased name contains "mac", "darwin" or
\* "linux"; every asset it returns is one of the release's assets.
C5_NoArmNoForeignOsZip ==
    pc = "done" =>
        \A ai \in InfoSet(classified) :
            /\ \E i \in 1..Len(assets) : assets[i] = ai.file_title
            /\ ~NamesArm(to_lowercase(ai.file_title))
            /\ ends_with(to_lowercase(ai.file_title), <<".","z","i","p">>)
                  => ~NamesForeignOs(to_lowercase(ai.file_title))

\* C5 witness: an .exe asset that contains the repository name and is named
\* for ARM went through classification and was excluded.
C5_Witness ==
    /\ pc = "done"
    /\ Len(assets) = 1
    /\ contains(to_lowercase(assets[1]), to_lowercase(repoName))
    /\ NamesArm(to_lowercase(assets[1]))
    /\ ends_with(to_lowercase(assets[1]), <<".","e","x","e">>)
    /\ classified = <<>>

\* What the claim C6 says classification yields for one asset: <<kind>> or <<>>
C6_ClaimedKind(repo_lower, lower) ==
    IF ~contains(lower, repo_lower) THEN <<>>
    ELSE IF \/ ends_with(lower, <<".","m","s","i">>)
            \/ /\ ends_with(lower, <<".","e","x","e">>)
               /\ \E w \in { <<"i","n","s","t","a","l","l">>, <<"s","e","t","u","p">>,
                             <<"u","p","d","a","t","e">> } : contains(lower, w)
         THEN <<Installer>>
    ELSE IF ends_with(lower, <<".","e","x","e">>) THEN <<Exe>>
    ELSE IF ends_with(lower, <<".","z","i","p">>) /\ ~NamesForeignOs(lower)
         THEN <<Zip>>
    ELSE <<>>

RECURSIVE C6_ClaimedList(_, _)
C6_ClaimedList(repo_lower, as) ==
    IF as = <<>> THEN <<>>
    ELSE LET k == C6_ClaimedKind(repo_lower, to_lowercase(Head(as)))
         IN  (IF k = <<>> THEN <<>> ELSE << <<Head(as), k[1]>> >>)
                \o C6_ClaimedList(repo_lower, Tail(as))

\* C6: for assets not named for ARM, classification keeps exactly the assets
\* that contain the repository name and end in .msi, .exe or (without a foreign
\* OS word) .zip, in order, with kind Installer for .msi and for .exe containing
\* "install", "setup" or "update", Exe for any other .exe, Zip for .zip; every
\* other asset is dropped.
C6_KindByNameAndExtension ==
    (pc = "done" /\ \A i \in 1..Len(assets) : ~NamesArm(to_lowercase(assets[i]))) =>
        TitlesAndKinds(classified) = C6_ClaimedList(to_lowercase(repoName), assets)

\* C6 witness: a release with an installer, an archive and a standalone asset
\* side by side, all three classified.
C6_Witness ==
    /\ pc = "done"
    /\ \A i \in 1..Len(assets) : ~NamesArm(to_lowercase(assets[i]))
    /\ Len(classified) = 3
    /\ {classified[i].dist_type : i \in 1..3} = DistType

\* The packaging vocabulary and punctuation that C7 says normalisation strips
C7_Vocabulary ==
    {FuzzPatterns[i] : i \in 1..Len(FuzzPatterns)} \cup { <<"-">>, <<"_">>, <<".">> }

\* s is a concatenation of vocabulary tokens and punctuation
RECURSIVE C7_IsPackagingText(_)
C7_IsPackagingText(s) ==
    \/ s = <<>>
    \/ \E t \in C7_Vocabulary :
          starts_with(s, t) /\ C7_IsPackagingText(SubSeq(s, Len(t) + 1, Len(s)))

\* lower is the repository name with packaging text before and after it
C7_IsNamePlusPackaging(lower, repo_lower) ==
    \E i \in 0..Len(lower) :
        /\ i + Len(repo_lower) <= Len(lower)
        /\ SubSeq(lower, i + 1, i + Len(repo_lower)) = repo_lower
        /\ C7_IsPackagingText(SubSeq(lower, 1, i))
        /\ C7_IsPackagingText(SubSeq(lower, i + Len(repo_lower) + 1, Len(lower)))

\* C7 (as claimed): a classified asset whose lowercased name is the lowercased
\* repository name plus only punctuation and packaging-vocabulary tokens has its
\* exact-match flag set, for a repository name containing no vocabulary token.
C7_ExactMatchForPackagingNames ==
    pc = "done" =>
        \A ai \in InfoSet(classified) :
            (/\ \A t \in C7_Vocabulary : ~contains(to_lowercase(repoName), t)
             /\ C7_IsNamePlusPackaging(to_lowercase(ai.file_title),
                                       to_lowercase(repoName)))
                => ai.is_exact_match

\* C8: with a preferred kind the selector returns the first classified asset, in
\* list order, of that kind, and nothing when no classified asset has that kind.
C8_FirstOfPreferredKind ==
    (pc = "done" /\ IsSome(preferred)) =>
        LET hits == {i \in 1..Len(classified) :
                        classified[i].dist_type = Unwrap(preferred)}
        IN  IF hits = {} THEN selected = None
            ELSE LET first == CHOOSE i \in hits : \A j \in hits : i <= j
                 IN  /\ IsSome(selected)
                     /\ Unwrap(selected).kind = Unwrap(preferred)
                     /\ Unwrap(selected).package_info.file_title
                            = classified[first].file_title

\* C8 witness: two assets of the preferred kind were classified, after an asset
\* of another kind, and the selector returned one.
C8_Witness ==
    /\ pc = "done"
    /\ IsSome(preferred)
    /\ Len(classified) = 3
    /\ classified[1].dist_type # Unwrap(preferred)
    /\ classified[2].dist_type = Unwrap(preferred)
    /\ classified[3].dist_type = Unwrap(preferred)
    /\ IsSome(selected)

----------------------------------------------------------------------------
(* Claims about version resolution, checked under SpecVersion *)

\* s is digits separated by single dots, beginning and ending with a digit
C9_IsDottedDigits(s) ==
    /\ s # <<>>
    /\ \A i \in 1..Len(s) : s[i] \in Digits \cup {"."}
    /\ s[1] \in Digits /\ s[Len(s)] \in Digits
    /\ \A i \in 1..(Len(s) - 1) : ~(s[i] = "." /\ s[i + 1] = ".")

\* The first dotted-digit token of a text: it starts at the first digit and is
\* the longest dotted-digit run from there; <<>> when the text has no digit
C9_Token(text) ==
    IF \A i \in 1..Len(text) : text[i] \notin Digits THEN <<>>
    ELSE LET i == CHOOSE k \in 1..Len(text) :
                     text[k] \in Digits /\ \A m \in 1..(k - 1) : text[m] \notin Digits
             j == CHOOSE k \in i..Len(text) :
                     /\ C9_IsDottedDigits(SubSeq(text, i, k))
                     /\ \A m \in (k + 1)..Len(text) :
                            ~C9_IsDottedDigits(SubSeq(text, i, m))
         IN  SubSeq(text, i, j)

\* C9: resolving an explicit version returns the first release, in list order,
\* whose tag's first dotted-digit token is string-equal to that of the request,
\* with that token as the version; tags without a token are skipped; a request
\* without a token, or without an equal release, resolves to nothing.
C9_FirstReleaseWithEqualToken ==
    pc = "done" =>
        LET want == C9_Token(request)
            hits == {i \in 1..Len(releases) :
                        C9_Token(releases[i]) # <<>> /\ C9_Token(releases[i]) = want}
        IN  IF want = <<>> \/ hits = {} THEN resolved = None
            ELSE /\ IsSome(resolved)
                 /\ Unwrap(resolved).release = CHOOSE i \in hits : \A j \in hits : i <= j
                 /\ Unwrap(resolved).version = want

\* C9 witness: tags [v2.0.9, v2.0.7, v2.0.6] and the request "2.0.7" resolved to
\* the second release with version "2.0.7".
C9_Witness ==
    /\ pc = "done"
    /\ releases = << <<"v","2",".","0",".","9">>, <<"v","2",".","0",".","7">>, <<"v","2",".","0",".","6">> >>
    /\ request = <<"2",".","0",".","7">>
    /\ resolved = Some([release |-> 2, version |-> <<"2",".","0",".","7">>])

----------------------------------------------------------------------------
(* Claims about the commands, under Spec *)

\* The database holds a record with this name, compared ignoring case
C2_HoldsRecord(items, name) ==
    \E p \in items : to_lowercase(p.repo.name) = to_lowercase(name)

\* C2: install_package given a name the database already holds a record for
\* returns PackageAlreadyInstalled, resolves no version, downloads nothing,
\* runs no install step, and leaves the database and the downloaded files as
\* they were
C2_InstallOfInstalledIsRejected ==
    [][ (lastCmd'.op = "install" /\ C2_HoldsRecord(db, lastCmd'.name))
        => /\ lastCmd'.result = "PackageAlreadyInstalled"
           /\ lastCmd'.resolved = None
           /\ lastCmd'.kind = None
           /\ ~lastCmd'.net
           /\ ~lastCmd'.ran
           /\ db' = db
           /\ dists' = dists ]_vars

\* An install of "bar" was rejected while the record of Bar was in the database
C2_Witness ==
    /\ lastCmd.op = "install"
    /\ lastCmd.result = "PackageAlreadyInstalled"
    /\ C2_HoldsRecord(db, lastCmd.name)

\* The version resolved for the request is the version of the installed record
C3_ResolvedIsInstalled(items, log) ==
    /\ IsSome(log.resolved)
    /\ \E p \in items : /\ to_lowercase(p.repo.name) = to_lowercase(log.name)
                        /\ p.version = Unwrap(log.resolved)

\* C3: an update whose request resolves to the version already installed
\* downloads nothing, runs no install step, leaves the database and the
\* downloaded files as they were, and returns AlreadyUpToDate for "latest"
\* and VersionAlreadyInstalled for an explicit version
C3_UpdateToInstalledVersionDoesNothing ==
    [][ (lastCmd'.op = "update" /\ C3_ResolvedIsInstalled(db, lastCmd'))
        => /\ lastCmd'.kind = None
           /\ ~lastCmd'.net
           /\ ~lastCmd'.ran
           /\ db' = db
           /\ dists' = dists
           /\ lastCmd'.result = IF lastCmd'.version = Latest THEN "AlreadyUpToDate"
                                ELSE "VersionAlreadyInstalled" ]_vars

\* An explicit version equal to the installed one was requested and refused
C3_Witness ==
    /\ lastCmd.op = "update"
    /\ lastCmd.version # Latest
    /\ lastCmd.result = "VersionAlreadyInstalled"
    /\ C3_ResolvedIsInstalled(db, lastCmd)

\* The new value when the install produced one, the previous value otherwise
C4_Merged(new_value, old_value, merged) ==
    IF IsSome(new_value) THEN merged = new_value ELSE merged = old_value

\* C4: after a successful update the record that replaces the old one has, for
\* executable path, installation folder and uninstall command, the value of
\* the new install where it is present and the old record's value where it is
\* absent, with the new distributable's version and the old repository
C4_UpdateMergesInstallInfo ==
    [][ (lastCmd'.op = "update" /\ lastCmd'.result = "Ok")
        => \E old \in db, new \in db' :
            LET info == Unwrap(lastCmd'.info)
            IN  /\ to_lowercase(old.repo.name) = to_lowercase(lastCmd'.name)
                /\ db' = (db \ {old}) \cup {new}
                /\ C4_Merged(info.executable_path, old.install_info.executable_path,
                             new.install_info.executable_path)
                /\ C4_Merged(info.installation_folder,
                             old.install_info.installation_folder,
                             new.install_info.installation_folder)
                /\ C4_Merged(info.uninstall_command, old.install_info.uninstall_command,
                             new.install_info.uninstall_command)
                /\ new.version = Unwrap(lastCmd'.resolved)
                /\ new.repo = old.repo ]_vars

\* A successful update whose install found a new executable but no uninstall
\* command, and whose record keeps the uninstall command it had
C4_Witness ==
    /\ lastCmd.op = "update"
    /\ lastCmd.result = "Ok"
    /\ IsSome(Unwrap(lastCmd.info).executable_path)
    /\ Unwrap(lastCmd.info).uninstall_command = None
    /\ \E p \in db : /\ IsSome(p.install_info.uninstall_command)
                     /\ p.install_info.executable_path = Unwrap(lastCmd.info).executable_path

\* C10: a download of an Installer whose target file exists sends no request
\* and leaves the file as it was, and a download of an Exe or a Zip always
\* sends the request, whether or not the file exists
C10_OnlyInstallerReusesFile ==
    [][ /\ (lastCmd'.kind = Some(Installer) /\ lastCmd'.existed)
            => (~lastCmd'.net /\ dists' = dists /\ lastCmd'.result # "RequestError")
        /\ (lastCmd'.kind \in {Some(Exe), Some(Zip)}) => lastCmd'.net ]_vars

----------------------------------------------------------------------------
(* Claims about the archive install, checked under SpecZip *)

\* The files of the tree the extraction left
ExtractedFiles == {e \in ret.extracted : ~e.dir}

\* A file of the extracted tree is named <name>.exe
HasNamedExe ==
    \E e \in ExtractedFiles : file_name(e.path) = arg.name \o <<".","e","x","e">>

\* A file of the extracted tree has a lowercased name that ends in .exe and
\* contains the lowercased package name
HasLooseExe ==
    \E e \in ExtractedFiles :
        /\ ends_with(to_lowercase(file_name(e.path)), <<".","e","x","e">>)
        /\ contains(to_lowercase(file_name(e.path)), to_lowercase(arg.name))

\* C11: the install of an archive whose extracted tree holds no file named
\* <name>.exe and no file whose lowercased name ends in .exe and contains the
\* lowercased package name fails with NoExeFound, and the whole installation
\* folder is gone after it.
C11_NoExecutableFailsAndDeletes ==
    (pc = "done" /\ ~HasNamedExe /\ ~HasLooseExe)
        => (ret.err = "NoExeFound" /\ disk = {})

\* The entries directly in the folder at path
C23_EntriesIn(fs, path) == {e \in fs : Len(e.path) = Len(path) + 1 /\ path_starts_with(e.path, path)}

\* C23: on an extraction root with no entry or with two or more entries,
\* files or directories in any mix, the flattening leaves the folder tree
\* exactly as it was extracted.
C23_FlatRootIsLeftAlone ==
    (pc = "done" /\ Cardinality(C23_EntriesIn(ret.extracted, InstallationFolder)) # 1)
        => ret.flattened = ret.extracted

\* The folder the single-directory levels of the tree lead to, from path on
RECURSIVE C24_Innermost(_, _)
C24_Innermost(fs, path) ==
    IF /\ Cardinality(C23_EntriesIn(fs, path)) = 1
       /\ \A e \in C23_EntriesIn(fs, path) : e.dir
    THEN C24_Innermost(fs, (CHOOSE e \in C23_EntriesIn(fs, path) : TRUE).path)
    ELSE path

\* The content of the folder at path, as a tree of its own
C24_ContentOf(fs, path) ==
    {Entry(SubSeq(e.path, Len(path) + 1, Len(e.path)), e.dir) :
        e \in {f \in fs : path_starts_with(f.path, path)}}

\* C24: when the extraction root holds one entry and it is a directory,
\* through any number of such levels, the flattening ends with the content of
\* the innermost directory directly in the root and every wrapper directory
\* gone, and the root is no longer a single directory.
C24_WrappersAreRemoved ==
    (/\ pc = "done"
     /\ Cardinality(C23_EntriesIn(ret.extracted, InstallationFolder)) = 1
     /\ \A e \in C23_EntriesIn(ret.extracted, InstallationFolder) : e.dir)
        => /\ ret.err # "IoError"
           /\ ret.flattened
                 = C24_ContentOf(ret.extracted,
                                 C24_Innermost(ret.extracted, InstallationFolder))
           /\ C24_Innermost(ret.flattened, InstallationFolder) = InstallationFolder

\* The files of the tree the search ran on whose lowercased name is <name>.exe
C25_ExactFiles ==
    {e \in ret.flattened :
        /\ ~e.dir
        /\ e.path # InstallationFolder
        /\ to_lowercase(file_name(e.path)) = to_lowercase(arg.name) \o <<".","e","x","e">>}

\* The files whose lowercased name ends in .exe and contains the name
C25_LooseFiles ==
    {e \in ret.flattened :
        /\ ~e.dir
        /\ e.path # InstallationFolder
        /\ ends_with(to_lowercase(file_name(e.path)), <<".","e","x","e">>)
        /\ contains(to_lowercase(file_name(e.path)), to_lowercase(arg.name))}

\* C25: the search returns a file whose lowercased name is exactly <name>.exe
\* whenever the tree holds one, wherever the looser candidates are; a file
\* that only ends in .exe and contains the name is returned only when there
\* is no exact one.
C25_ExactBeforeLoose ==
    (pc = "done" /\ ret.err # "IoError")
        => /\ C25_ExactFiles # {}
                => /\ IsSome(ret.executable_path)
                   /\ Entry(Unwrap(ret.executable_path), FALSE) \in C25_ExactFiles
           /\ (C25_ExactFiles = {} /\ IsSome(ret.executable_path)
               /\ Entry(Unwrap(ret.executable_path), FALSE) \in ret.flattened)
                => Entry(Unwrap(ret.executable_path), FALSE) \in C25_LooseFiles

----------------------------------------------------------------------------
(* Claims about the uninstall command, checked under SpecUninstallCommand *)

\* The text of the command after the quoted program and the space behind it
C12_Remainder == IF arg.words = <<>> THEN <<>> ELSE Tail(JoinWords(arg.words))

\* C12: a command that does not name MsiExec.exe parses to the first quoted
\* segment without its quotes as the program and the words after it as the
\* arguments, one per word; a MsiExec.exe command parses to the program
\* MsiExec.exe and the text after it as the arguments.
C12_ProgramAndArgs ==
    (pc = "done" /\ (arg.program.quoted \/ arg.program.path = MSI_EXEC))
        => /\ ret.program = arg.program.path
           /\ IF arg.program.path = MSI_EXEC
              THEN JoinWords(ret.args) = JoinWords(arg.words)
              ELSE ret.args = split(C12_Remainder, <<" ">>)

----------------------------------------------------------------------------
(* Claims about the uninstall, checked under SpecUninstall *)

\* The uninstall command of an Installer record was started and starting it
\* failed with the error kind exec
C13_CommandFailed(log, exec) ==
    /\ log.op = "uninstall"
    /\ log.ran
    /\ log.kind = Some(Installer)
    /\ IsSome(Unwrap(log.info).uninstall_command)
    /\ Unwrap(log.step).env.io_ok
    /\ Unwrap(log.step).env.exec = exec

\* C13: when starting the uninstall command of an Installer record fails, the
\* error of an invalid path or file name syntax becomes the soft result
\* Ok(false), and every other error of the operating system is returned to
\* the caller as an error.
C13_OnlyInvalidSyntaxIsSoft ==
    /\ C13_CommandFailed(lastCmd, "InvalidSyntax")
          => Unwrap(lastCmd.step).done = UninstallOk(FALSE)
    /\ C13_CommandFailed(lastCmd, "OtherError")
          => Unwrap(lastCmd.step).done.err

\* The uninstall step of the command returned Ok(true)
C14_Success(log) ==
    /\ ~Unwrap(log.step).done.err
    /\ Unwrap(log.step).done.uninstalled

\* C14: uninstall_package returns NoInstalledPackage and changes nothing when
\* the database holds no record of the name; otherwise the record is removed
\* exactly when the uninstall step reported success or the force flag is set,
\* and when neither is the case it returns FailedToUninstall and the record
\* stays as it was.
C14_RemovedIffSuccessOrForce ==
    [][ lastCmd'.op = "uninstall"
        => IF find_package(db, lastCmd'.name) = {}
           THEN /\ lastCmd'.result = "NoInstalledPackage"
                /\ ~lastCmd'.ran
                /\ db' = db
                /\ dists' = dists
           ELSE IF C14_Success(lastCmd') \/ lastCmd'.force
           THEN /\ lastCmd'.result = "Ok"
                /\ find_package(db', lastCmd'.name) = {}
                /\ db' = db \ find_package(db, lastCmd'.name)
           ELSE /\ lastCmd'.result = "FailedToUninstall"
                /\ db' = db ]_vars

\* A forced uninstall removed the record although the uninstall step failed
C14_Witness ==
    /\ lastCmd.op = "uninstall"
    /\ lastCmd.ran
    /\ lastCmd.force
    /\ ~C14_Success(lastCmd)
    /\ lastCmd.result = "Ok"
    /\ db = {}

----------------------------------------------------------------------------
(* Claims about names given in full and the update of all packages, checked *)
(* under SpecNames                                                         *)

\* The database holds a record whose short name or full name is the name
\* given, ignoring case
C15_HoldsRecord(items, name) ==
    \E p \in items : \/ to_lowercase(p.repo.name) = to_lowercase(name)
                     \/ to_lowercase(p.repo.full_name) = to_lowercase(name)

\* C15: the lookup finds the record of a package under its short name and
\* under its full owner/name, ignoring case, so that the install of a package
\* already installed is rejected under either name and changes nothing.
C15_LookupByShortOrFullName ==
    [][ (lastCmd'.op = "install" /\ C15_HoldsRecord(db, lastCmd'.name))
        => /\ find_package(db, lastCmd'.name) # {}
           /\ lastCmd'.result = "PackageAlreadyInstalled"
           /\ db' = db ]_vars

\* The names of the records, in the order given
C17_Names(packages) == [i \in 1..Len(packages) |-> packages[i].repo.name]

\* C17: the update of all packages attempts the update of every record
\* fetched, in turn, whatever the earlier updates returned; the errors
\* collected are those of the attempts that failed, AlreadyUpToDate and
\* VersionAlreadyInstalled not among them; and the command itself returns Ok.
C17_UpdateAllAttemptsEveryPackage ==
    (pc = "idle" /\ lastCmd.op = "update" /\ lastCmd.name = All)
        => /\ lastCmd.result = "Ok"
           /\ [i \in 1..Len(Unwrap(lastCmd.step).attempts) |->
                    Unwrap(lastCmd.step).attempts[i].name]
                 = C17_Names(Unwrap(lastCmd.step).fetched)
           /\ Unwrap(lastCmd.step).errored_packages
                 = SelectSeq(Unwrap(lastCmd.step).attempts, LAMBDA a :
                       a.result \notin {"Ok", "AlreadyUpToDate",
                                        "VersionAlreadyInstalled"})

\* An update of all packages went on to the second record after the update
\* of the first had failed, and updated it
C17_Witness ==
    /\ pc = "idle"
    /\ lastCmd.op = "update"
    /\ lastCmd.name = All
    /\ Len(Unwrap(lastCmd.step).attempts) = 2
    /\ Unwrap(lastCmd.step).attempts[1].result = "RequestError"
    /\ Unwrap(lastCmd.step).attempts[2].result = "Ok"
    /\ Len(Unwrap(lastCmd.step).errored_packages) = 1

----------------------------------------------------------------------------
(* Claims about the kind of a record, checked under Spec *)

C18_StandaloneAndArchiveRecords ==
    \A p \in db :
        p.install_info.dist_type \in {Exe, Zip}
            => /\ p.install_info.uninstall_command = None
               /\ IsSome(p.install_info.executable_path)
               /\ IsSome(p.install_info.installation_folder)

\* An update has replaced the record of a package of the kind Exe or Zip
C18_Witness ==
    /\ lastCmd.op = "update"
    /\ lastCmd.result = "Ok"
    /\ \E p \in db : /\ p.install_info.dist_type \in {Exe, Zip}
                     /\ Some(p.version) = lastCmd.resolved

\* An install command installed a distributable and got its InstallInfo
C19_Installed(log) == log.op = "install" /\ log.ran /\ IsSome(log.info)

\* C19, as stated: the kind of the distributable install_package installs and
\* records is the kind the classifier gave its asset.
C19_RecordedKindIsClassifiedKind ==
    C19_Installed(lastCmd)
        => Unwrap(lastCmd.info).dist_type = Unwrap(lastCmd.kind)

\* C19, amended: the kind of the distributable install_package installs and
\* records is the kind the classifier gave its asset, except that an asset
\* classified Exe whose downloaded bytes spell "Inno" or "Nullsoft" is
\* installed and recorded as Installer.
C19_RecordedKindUnlessActuallyInstaller ==
    C19_Installed(lastCmd)
        => Unwrap(lastCmd.info).dist_type
              = IF /\ lastCmd.kind = Some(Exe)
                   /\ IsInnoOrNullsoftBody(BarExe, Unwrap(lastCmd.resolved))
                THEN Installer
                ELSE Unwrap(lastCmd.kind)

\* An asset classified Exe was installed and recorded as Installer
C19_Witness ==
    /\ C19_Installed(lastCmd)
    /\ lastCmd.result = "Ok"
    /\ lastCmd.kind = Some(Exe)
    /\ \E p \in db : /\ p.install_info = Unwrap(lastCmd.info)
                     /\ p.install_info.dist_type = Installer

----------------------------------------------------------------------------
(* Claims about the shortcut snapshot, checked under SpecStartmenu *)

\* C20: the snapshot holds the path of every file at any depth below the
\* start-menu folder whose name ends in ".lnk", and nothing else.
C20_SnapshotIsEveryLnkFile ==
    pc = "done"
        => ret.files = {e.path : e \in {f \in disk :
                           /\ ~f.dir
                           /\ ends_with(file_name(f.path), <<".","l","n","k">>)}}

----------------------------------------------------------------------------
(* Claims about the read-back of an installer, checked under SpecInstaller *)

\* The files below the two start-menu folders whose name ends in ".lnk"
C21_ShortcutFiles(fs) ==
    {e.path : e \in {f \in fs : /\ ~f.dir
                                /\ \/ path_starts_with(f.path, Appdata)
                                   \/ path_starts_with(f.path, Programdata)
                                /\ ends_with(file_name(f.path), <<".","l","n","k">>)}}

\* The shortcuts the installer made that name the package
C21_NewNamedShortcuts ==
    {s \in C21_ShortcutFiles(disk.fs) \ C21_ShortcutFiles(ret.before.world_before.fs) :
        contains(to_lowercase(file_name(s)), to_lowercase(arg.name))}

\* The fixed candidates, in the order of the search
C21_Candidates ==
    <<Append(Appdata, shortcut_file_name(arg.name)),
      Appdata \o <<arg.name, shortcut_file_name(arg.name)>>,
      Append(Programdata, shortcut_file_name(arg.name)),
      Programdata \o <<arg.name, shortcut_file_name(arg.name)>> >>

\* C21: after the installer ran the shortcut is the first fixed candidate
\* that exists, user folder before machine folder; with no candidate it is a
\* file of the difference of the snapshots whose lowercased name contains the
\* lowercased package name, and one is found whenever the installer made a
\* new .lnk file of that kind.
C21_ShortcutIsFound ==
    pc = "done" =>
        /\ \A i \in 1..4 :
            (/\ path_is_file(disk.fs, C21_Candidates[i])
             /\ \A j \in 1..(i - 1) : ~path_is_file(disk.fs, C21_Candidates[j]))
                => ret.info.shortcut_path = Some(C21_Candidates[i])
        /\ (\A i \in 1..4 : ~path_is_file(disk.fs, C21_Candidates[i]))
                => /\ IsSome(ret.info.shortcut_path)
                        => Unwrap(ret.info.shortcut_path) \in C21_NewNamedShortcuts
                   /\ C21_NewNamedShortcuts # {} => IsSome(ret.info.shortcut_path)

\* The command of a subkey as the registry holds it
C22_Command(subkey) ==
    IF IsSome(subkey.QuietUninstallString) THEN subkey.QuietUninstallString
    ELSE subkey.UninstallString

\* What the new subkeys of a hive that name the package hold as command
C22_Yields(hive, before_keys) ==
    {C22_Command(k) : k \in {h \in hive :
        /\ h.name \notin before_keys
        /\ IsSome(h.DisplayName)
        /\ contains(to_lowercase(Unwrap(h.DisplayName)), to_lowercase(arg.name))}}

\* A hive may yield nothing: no new subkey names the package, or one that
\* does holds no command
C22_Nothing(yields) == yields = {} \/ None \in yields

\* The files of the installation folder named like an uninstaller
C22_Uninstallers ==
    {e.path : e \in {f \in disk.fs :
        /\ ~f.dir
        /\ IsSome(ret.info.installation_folder)
        /\ Parent(f.path) = Unwrap(ret.info.installation_folder)
        /\ contains(to_lowercase(file_name(f.path)), <<"u","n","i","n","s">>)
        /\ ends_with(to_lowercase(file_name(f.path)), <<".","e","x","e">>)}}

\* C22: the uninstall command comes from a subkey that is there after and not
\* before the installer ran and whose DisplayName contains the lowercased
\* package name, its QuietUninstallString before its UninstallString; from
\* the machine hive only when the user hive yields nothing; from the scan of
\* the installation folder only when both hives yield nothing and the folder
\* was resolved.
C22_UninstallCommandOrigin ==
    pc = "done" =>
        \/ /\ ret.info.err = ""
           /\ IsSome(ret.info.uninstall_command)
           /\ ret.info.uninstall_command \in C22_Yields(disk.user, fetch_reg_keys(ret.before.world_before.user))
        \/ /\ ret.info.err = ""
           /\ C22_Nothing(C22_Yields(disk.user, fetch_reg_keys(ret.before.world_before.user)))
           /\ IsSome(ret.info.uninstall_command)
           /\ ret.info.uninstall_command \in C22_Yields(disk.machine, fetch_reg_keys(ret.before.world_before.machine))
        \/ /\ C22_Nothing(C22_Yields(disk.user, fetch_reg_keys(ret.before.world_before.user)))
           /\ C22_Nothing(C22_Yields(disk.machine, fetch_reg_keys(ret.before.world_before.machine)))
           /\ IF IsSome(ret.info.installation_folder)
              THEN \/ ret.info.err = "IoError"
                   \/ /\ ret.info.err = ""
                      /\ IF C22_Uninstallers = {}
                         THEN ret.info.uninstall_command = None
                         ELSE /\ IsSome(ret.info.uninstall_command)
                              /\ Unwrap(ret.info.uninstall_command) \in C22_Uninstallers
              ELSE ret.info.err = "" /\ ret.info.uninstall_command = None

\* C22 is met where a subkey that was there before names the package and a
\* new one of the machine hive gives the command
C22_Witness ==
    /\ pc = "done"
    /\ \E k \in disk.user :
        /\ k.name \in ret.before.user_reg_keys_before
        /\ IsSome(k.DisplayName)
        /\ contains(to_lowercase(Unwrap(k.DisplayName)), to_lowercase(arg.name))
        /\ IsSome(C22_Command(k))
    /\ IsSome(ret.info.uninstall_command)
    /\ ret.info.uninstall_command \in C22_Yields(disk.machine, ret.before.machine_reg_keys_before)
    /\ ret.info.uninstall_command \notin {C22_Command(k) : k \in disk.user}

----------------------------------------------------------------------------
(* Claim about the records of one repository, checked under SpecNames *)

\* C26: after any sequence of commands the database never holds two records
\* of one repository, that is two records with the same lowercased short
\* name or the same lowercased full name.
C26_OneRecordPerRepository ==
    \A p, q \in db :
        (p.lowercase_name = q.lowercase_name \/ p.lowercase_fullname = q.lowercase_fullname)
            => p = q

----------------------------------------------------------------------------
(* Claim about a failed update, checked under SpecZipUpdate *)

\* C27: when the install of the updated version fails, the installation
\* folder and the executable the record of the installed version refers to
\* are still on disk.
C27_FailedUpdateKeepsInstallation ==
    (pc = "done" /\ ret.err # "")
        => /\ path_is_dir(disk, InstallationFolder)
           /\ path_is_file(disk, Unwrap(ret.old.executable_path))

----------------------------------------------------------------------------
(* Claim about the downloaded installer, checked under Spec *)

\* C28: whenever the download of an Installer returns a path (the command
\* did not end with the request error of the download), the file of that
\* path, Bar-Setup.exe in the distributables folder, holds the complete body
\* of the asset of the resolved version, not a truncated and not an earlier
\* one.
C28_InstallerFileIsTheRequestedAsset ==
    [][ (/\ lastCmd'.kind = Some(Installer)
         /\ lastCmd'.result # "RequestError")
            => dists'[BarSetupExe] = Body(Unwrap(lastCmd'.resolved)) ]_vars

----------------------------------------------------------------------------
(* Claim about the record of an installer, checked under SpecInstaller *)

\* C29: whenever the installer process has run to its end, the install
\* command ends with the record of the package in the database.
C29_InstallerRunEndsWithRecord ==
    pc = "done" => \E p \in db : p.repo.name = arg.name

----------------------------------------------------------------------------
(* Claim about an installer without uninstall command, checked under         *)
(* SpecUninstall                                                             *)

\* The uninstall of a record of the Installer kind that holds no uninstall
\* command
C30_NoCommand(log) ==
    /\ log.op = "uninstall"
    /\ log.ran
    /\ log.kind = Some(Installer)
    /\ Unwrap(log.info).uninstall_command = None

\* C30: for a package of the Installer kind whose record holds no uninstall
\* command the uninstall step starts no process and does not report the
\* package uninstalled; uninstall_package then returns FailedToUninstall and
\* keeps the record, unless force is set, and then the record is removed.
C30_NoCommandNoUninstall ==
    [][ C30_NoCommand(lastCmd')
        => /\ ~Unwrap(lastCmd'.step).spawned
           /\ ~Unwrap(lastCmd'.step).done.uninstalled
           /\ ~Unwrap(lastCmd'.step).done.err
                => Unwrap(lastCmd'.step).done = UninstallOk(FALSE)
           /\ IF lastCmd'.force
              THEN /\ lastCmd'.result = "Ok"
                   /\ db' = db \ find_package(db, lastCmd'.name)
                   /\ find_package(db', lastCmd'.name) = {}
              ELSE /\ lastCmd'.result = "FailedToUninstall"
                   /\ db' = db ]_vars

\* A forced uninstall removed the record of an installer without uninstall
\* command, and the step reported Ok(false)
C30_Witness ==
    /\ C30_NoCommand(lastCmd)
    /\ lastCmd.force
    /\ Unwrap(lastCmd.step).done = UninstallOk(FALSE)
    /\ Unwrap(lastCmd.step).env.exec = "Ok"
    /\ lastCmd.result = "Ok"
    /\ db = {}

====
